---- MODULE Spec2Model ----
(***************************************************************************)
(* Concurrent execution engine of the linq package: SelectAsync,           *)
(* SelectAsyncCtx, ForEachParallel and ForEachParallelCtx, in the          *)
(* revisions kept in the repository:                                       *)
(*   - linq.go (second revision, pull iterators): stride-partitioned slice *)
(*     path and semaphore/channel dispatch path;                           *)
(*   - projection.go / action.go (iter.Seq revision): semaphore dispatch   *)
(*     with a panic channel errCh and a derived workerCtx.                 *)
(* Source elements are identified by their index 0..length-1.  A callback  *)
(* (selector / action) is a step that starts ("run") and later returns or  *)
(* panics.  A Go select with several ready cases is a nondeterministic     *)
(* choice among them.                                                      *)
(***************************************************************************)
EXTENDS Integers, Sequences, FiniteSets, TLC

MaxLen == 3
MaxWorkers == 2

MaxG == IF MaxLen > MaxWorkers THEN MaxLen ELSE MaxWorkers
\* elements it takes to block the dispatcher of ForEachParallel's channel path:
\* one per worker, one per slot of ch (make(chan T, workers)), and one more
DispatchLen == 2 * MaxWorkers + 1
MaxIdx == IF DispatchLen > MaxLen THEN DispatchLen ELSE MaxLen
Idx == 0 .. (MaxIdx - 1)
Gid == 0 .. (MaxG - 1)

VARIABLES
    impl,         \* which implementation runs
    workers,      \* the worker count N given by the caller
    length,       \* len(source)
    passing,      \* indices accepted by the accumulated filter (fastWhere)
    faulty,       \* indices whose callback panics
    hasCtx,       \* the call takes a cancellable context
    ctxDone,      \* ctx.Done() is closed
    cancelCalled, \* cancel() of the derived workerCtx was called
    pc,           \* producer goroutine (SelectAsync*) or calling thread (ForEachParallel*)
    next,         \* index of the next source element to hand out
    g,            \* goroutines: [st, it]
    sem,          \* tokens held in sem
    outCh,        \* buffered results in outCh
    ch,           \* buffered items in ch (ForEachParallel channel path)
    errCh,        \* panic values buffered in errCh
    closed,       \* how many times each channel was closed
    onceDone,     \* closeOnce has run
    consumer,     \* consumer of the result sequence
    recv,         \* results received by the consumer, per element
    calls,        \* callback invocations started, per element
    finished,     \* elements whose callback returned normally
    callerOrder,  \* elements whose action ran on the calling thread, in order
    undispatched, \* elements not yet handed to a worker when ctx was cancelled
    sentOnClosed  \* a send on a closed channel was executed

\* state of the sequential query operators (filter, partition, ordering, sets)
VARIABLES
    rev,          \* revision under study: "pull" (linq.go, func() (T, bool) iterators)
                  \* or "seq" (iter.Seq files: query.go, projection.go, set.go, sort.go)
    data,         \* the caller's backing slice
    qs,           \* the query built over From(data)
    qc,           \* the same chain built over FromChannel carrying data
    hist,         \* the operators applied so far, in order
    outS,         \* ToSlice() of qs
    outC,         \* ToSlice() of qc
    done,         \* the chain was terminated
    tq,           \* a query with one stateful operator, terminated repeatedly
    iter,         \* the variables of its running iterator
    acc,          \* what the running termination has received
    runs,         \* the terminations completed so far, with their results
    term,         \* the termination that is running
    orig,         \* the backing slice as the caller built it
    tie,          \* how the build's sort routine places elements that compare equal
    oq,           \* the query built by OrderBy / ThenBy calls over From(data)
    ohist,        \* the ordering calls made, in order
    ores,         \* the outcome of iterating oq
    sq,           \* a set or grouping operator over From(data) and From(data2)
    data2,        \* the second query's slice
    scan,         \* the variables of the operator's running iterator
    sout,         \* what the iterator has yielded
    pulls,        \* the elements pulled from the two sources, in order
    list,         \* first argument of a directly called function
    probe,        \* its second argument
    call,         \* the last call made and what it returned
    prev,         \* the call before it
    srcCh,        \* a channel fed with data: elements offered so far, closed or not
    taker         \* Take(count) over FromChannel(srcCh), being collected

chainVars == << qs, qc, hist, outS, outC, done >>

iterVars == << tq, iter, acc, runs, term, orig >>

sortVars == << oq, ohist, ores >>

setVars == << sq, data2, scan, sout, pulls >>

\* a direct call of a function: its arguments, the call and the one before it
callVars == << list, probe, call, prev >>

\* Take over a channel that is still being fed
takeVars == << srcCh, taker >>

qvars == << rev, data, tie, chainVars, iterVars, sortVars, setVars, callVars, takeVars >>

concVars == << impl, workers, length, passing, faulty, hasCtx, ctxDone, cancelCalled,
               pc, next, g, sem, outCh, ch, errCh, closed, onceDone, consumer, recv,
               calls, finished, callerOrder, undispatched, sentOnClosed >>

\* what the operator chains leave alone
nonChain == << concVars, tie, iterVars, sortVars, setVars, callVars, takeVars >>

\* what the repeated terminations leave alone
nonIter == << concVars, chainVars, sortVars, setVars, callVars, takeVars >>

\* what the ordering calls leave alone
nonSort == << concVars, chainVars, iterVars, setVars, callVars, takeVars >>

\* what the set operators leave alone
nonSet == << concVars, tie, chainVars, iterVars, sortVars, callVars, takeVars >>

\* what a direct call leaves alone
nonCall == << concVars, data, tie, chainVars, iterVars, sortVars, setVars, takeVars >>

\* what Take over a channel leaves alone
nonTake == << concVars, tie, chainVars, iterVars, sortVars, setVars, callVars >>

vars == << concVars, qvars >>

cfg == << impl, workers, length, passing, faulty, hasCtx >>

----------------------------------------------------------------------------
(* Helpers *)

Source == 0 .. (length - 1)

Evens == { i \in Idx : i % 2 = 0 }

\* the next index >= i that the iterator of a filtered query yields
RECURSIVE NextPass(_)
NextPass(i) == IF i >= length \/ i \in passing THEN i ELSE NextPass(i + 1)

Live(x) == g[x].st \notin {"idle", "done"}
AllJoined == \A x \in Gid : ~Live(x)
InProgress == { x \in Gid : g[x].st = "run" }

\* workerCtx is derived from ctx: done when ctx is done or cancel() was called
WorkerCtxDone == ctxDone \/ cancelCalled

StrideImpls == {"SA_stride", "SAC_stride"}
GenericImpls == {"SA_generic", "SAC_generic"}
CtxImpls == {"SAC_stride", "SAC_generic", "SAC_iter"}
SelectImpls == {"SA_stride", "SA_generic", "SAC_stride", "SAC_generic", "SAC_iter"}

\* capacity of outCh: make(chan V, workers*2); unbuffered in the iter.Seq revision
OutCap == IF impl = "SAC_iter" THEN 0 ELSE workers * 2

\* SemCap with an off-by-one slip: one token too many
SemCapPlusOne == workers + 1

\* capacity of sem: make(chan struct{}, workers)
SemCap == workers

\* CloseOnce with the sync.Once dropped: a bare close(doneCh)
CloseAlways(c) == [c EXCEPT !.doneCh = @ + 1]

\* closeOnce.Do(func() { close(doneCh) })
CloseOnce(c) == IF onceDone THEN c ELSE [c EXCEPT !.doneCh = @ + 1]

\* StrideStep with an off-by-one slip: a stride one too wide
StrideStepSkip(j) == j + workers + 1

\* the stride loop's increment: j += workers
StrideStep(j) == j + workers

\* StopReady with the <-ctx.Done() case of SelectAsyncCtx's workers dropped
StopReadyNoCtx == IF impl = "SAC_iter" THEN WorkerCtxDone ELSE closed.doneCh > 0

\* cancellation cases of a SelectAsync worker's select
StopReady ==
    CASE impl \in {"SA_stride", "SA_generic"} -> closed.doneCh > 0
      [] impl \in {"SAC_stride", "SAC_generic"} -> ctxDone \/ closed.doneCh > 0
      [] OTHER -> WorkerCtxDone

TypeOK ==
    /\ workers \in 0 .. MaxWorkers
    /\ length \in 0 .. MaxLen
    /\ passing \subseteq Source
    /\ faulty \subseteq passing
    /\ sem \in 0 .. MaxWorkers
    /\ Len(outCh) <= 2 * MaxWorkers

----------------------------------------------------------------------------
(* Initial states *)

\* a Query value: fast is "fastSlice != nil"; an empty fastWhere is a nil predicate;
\* iterate is the sequence the iterator yields over the unchanged source
NoQuery == [fast |-> FALSE, fastSlice |-> << >>, fastWhere |-> << >>, iterate |-> << >>]

ChainIdle ==
    /\ qs = NoQuery
    /\ qc = NoQuery
    /\ hist = << >>
    /\ outS = << >>
    /\ outC = << >>
    /\ done = FALSE

NoIter == [walk |-> << >>, index |-> 0, n |-> 0, flag |-> FALSE, set |-> {}]

IterIdle ==
    /\ tq = [op |-> "none", c |-> 0, p |-> {}, pre |-> << >>]
    /\ iter = NoIter
    /\ acc = << >>
    /\ runs = << >>
    /\ term = "none"
    /\ orig = << >>

NoOrdered == [compare |-> << >>, fault |-> FALSE, iterate |-> << >>,
              sorted |-> FALSE, sortSource |-> << >>]

SortIdle ==
    /\ oq = NoOrdered
    /\ ohist = << >>
    /\ ores = [done |-> FALSE, fault |-> FALSE, out |-> << >>]

NoScan == [phase |-> "none", i1 |-> 0, i2 |-> 0, seen |-> {}, emitted |-> {},
           groups |-> << >>, left |-> {}]

SetIdle ==
    /\ sq = [op |-> "none", fast |-> FALSE, key |-> ""]
    /\ data2 = << >>
    /\ scan = NoScan
    /\ sout = << >>
    /\ pulls = << >>

\* the concurrent operators do not touch the sequential operators' state
NoCall == [fn |-> "none", arg |-> "", ret |-> << >>]

CallIdle ==
    /\ list = << >>
    /\ probe = << >>
    /\ call = NoCall
    /\ prev = NoCall

NoTaker == [pc |-> "idle", count |-> 0, n |-> 0, pulled |-> 0, out |-> << >>]

TakeIdle ==
    /\ srcCh = [offered |-> 0, closed |-> FALSE]
    /\ taker = NoTaker

QueryIdle ==
    /\ rev = "none"
    /\ data = << >>
    /\ tie = "keep"
    /\ ChainIdle
    /\ IterIdle
    /\ SortIdle
    /\ SetIdle
    /\ CallIdle
    /\ TakeIdle

InitUpTo(n) ==
    /\ length \in 0 .. n
    /\ QueryIdle
    /\ passing \in {Source, Source \cap Evens}
    /\ faulty \in SUBSET passing
    /\ ctxDone = FALSE
    /\ cancelCalled = FALSE
    /\ pc = "start"
    /\ next = 0
    /\ g = [x \in Gid |-> [st |-> "idle", it |-> 0]]
    /\ sem = 0
    /\ outCh = << >>
    /\ ch = << >>
    /\ errCh = 0
    /\ closed = [outCh |-> 0, doneCh |-> 0, errCh |-> 0, ch |-> 0]
    /\ onceDone = FALSE
    /\ recv = [i \in Idx |-> 0]
    /\ calls = [i \in Idx |-> 0]
    /\ finished = {}
    /\ callerOrder = << >>
    /\ undispatched = {}
    /\ sentOnClosed = FALSE

InitCommon == InitUpTo(MaxLen)

\* SelectAsync / SelectAsyncCtx: the worker count is N >= 1
InitSelect ==
    /\ InitCommon
    /\ impl \in SelectImpls
    /\ workers \in 1 .. MaxWorkers
    /\ hasCtx = (impl \in CtxImpls)
    /\ consumer = "pull"

----------------------------------------------------------------------------
(* ctx is cancelled by its owner *)

Cancel ==
    /\ hasCtx
    /\ ~ctxDone
    /\ ctxDone' = TRUE
    /\ undispatched' = { i \in passing : /\ calls[i] = 0
                                         /\ \A x \in Gid : ~(Live(x) /\ g[x].it = i)
                                         /\ \A k \in 1 .. Len(ch) : ch[k] # i }
    /\ UNCHANGED << qvars, cfg, cancelCalled, pc, next, g, sem, outCh, ch, errCh, closed,
                    onceDone, consumer, recv, calls, finished, callerOrder, sentOnClosed >>

----------------------------------------------------------------------------
(* SelectAsync / SelectAsyncCtx, linq.go: the producer goroutine *)

\* fast path: wg.Add(workers) and one goroutine per stride
ProducerSpawnStride ==
    /\ impl \in StrideImpls
    /\ pc = "start"
    /\ g' = [x \in Gid |-> IF x < workers THEN [st |-> "top", it |-> x] ELSE g[x]]
    /\ pc' = "wait"
    /\ UNCHANGED << qvars, cfg, ctxDone, cancelCalled, next, sem, outCh, ch, errCh, closed,
                    onceDone, consumer, recv, calls, finished, callerOrder,
                    undispatched, sentOnClosed >>

\* generic path: next := q.iterate(); the first next()
ProducerStartGeneric ==
    /\ impl \in GenericImpls \cup {"SAC_iter"}
    /\ pc = "start"
    /\ next' = NextPass(0)
    /\ pc' = IF impl = "SAC_generic" THEN "check" ELSE "acquire"
    /\ UNCHANGED << qvars, cfg, ctxDone, cancelCalled, g, sem, outCh, ch, errCh, closed,
                    onceDone, consumer, recv, calls, finished, callerOrder,
                    undispatched, sentOnClosed >>

\* the source is exhausted: leave the loop for wg.Wait()
ProducerExhausted ==
    /\ impl \in GenericImpls \cup {"SAC_iter"}
    /\ pc \in {"check", "acquire"}
    /\ next >= length
    /\ pc' = "wait"
    /\ UNCHANGED << qvars, cfg, ctxDone, cancelCalled, next, g, sem, outCh, ch, errCh, closed,
                    onceDone, consumer, recv, calls, finished, callerOrder,
                    undispatched, sentOnClosed >>

\* SelectAsyncCtx: select { <-ctx.Done(); <-doneCh; default } before acquiring
ProducerCheck ==
    /\ impl = "SAC_generic"
    /\ pc = "check"
    /\ next < length
    /\ \/ /\ ctxDone
          /\ closed' = CloseOnce(closed)
          /\ onceDone' = TRUE
          /\ pc' = "wait"
       \/ /\ closed.doneCh > 0
          /\ pc' = "wait"
          /\ UNCHANGED << closed, onceDone >>
       \/ /\ ~ctxDone /\ closed.doneCh = 0
          /\ pc' = "acquire"
          /\ UNCHANGED << closed, onceDone >>
    /\ UNCHANGED << qvars, cfg, ctxDone, cancelCalled, next, g, sem, outCh, ch, errCh,
                    consumer, recv, calls, finished, callerOrder, undispatched,
                    sentOnClosed >>

\* select { <-ctx.Done(); <-doneCh; sem <- struct{}{} }: a cancellation case
ProducerStop ==
    /\ impl \in GenericImpls
    /\ pc = "acquire"
    /\ next < length
    /\ \/ /\ impl = "SAC_generic" /\ ctxDone
          /\ closed' = CloseOnce(closed)
          /\ onceDone' = TRUE
       \/ /\ closed.doneCh > 0
          /\ UNCHANGED << closed, onceDone >>
    /\ pc' = "wait"
    /\ UNCHANGED << qvars, cfg, ctxDone, cancelCalled, next, g, sem, outCh, ch, errCh,
                    consumer, recv, calls, finished, callerOrder, undispatched,
                    sentOnClosed >>

\* case sem <- struct{}{}: wg.Add(1); go func(it T) {...}(item)
ProducerDispatch ==
    /\ impl \in GenericImpls \cup {"SAC_iter"}
    /\ pc = "acquire"
    /\ next < length
    /\ sem < SemCap
    /\ sem' = sem + 1
    /\ g' = [g EXCEPT ![next] = [st |-> "run", it |-> next]]
    /\ calls' = [calls EXCEPT ![next] = @ + 1]
    /\ next' = NextPass(next + 1)
    /\ pc' = IF impl = "SAC_generic" THEN "check" ELSE "acquire"
    /\ UNCHANGED << qvars, cfg, ctxDone, cancelCalled, outCh, ch, errCh, closed, onceDone,
                    consumer, recv, finished, callerOrder, undispatched, sentOnClosed >>

\* wg.Wait() returns; the deferred close(outCh) runs
ProducerClose ==
    /\ impl \in SelectImpls
    /\ pc = "wait"
    /\ AllJoined
    /\ closed' = [closed EXCEPT !.outCh = @ + 1]
    /\ pc' = "done"
    /\ UNCHANGED << qvars, cfg, ctxDone, cancelCalled, next, g, sem, outCh, ch, errCh,
                    onceDone, consumer, recv, calls, finished, callerOrder,
                    undispatched, sentOnClosed >>

\* projection.go: case <-workerCtx.Done(): return, then the deferred close(outCh);
\* the producer does not wait for the workers on this path
ProducerStopIter ==
    /\ impl = "SAC_iter"
    /\ pc = "acquire"
    /\ next < length
    /\ WorkerCtxDone
    /\ closed' = [closed EXCEPT !.outCh = @ + 1]
    /\ pc' = "done"
    /\ UNCHANGED << qvars, cfg, ctxDone, cancelCalled, next, g, sem, outCh, ch, errCh,
                    onceDone, consumer, recv, calls, finished, callerOrder,
                    undispatched, sentOnClosed >>

----------------------------------------------------------------------------
(* SelectAsync / SelectAsyncCtx: the workers *)

\* what a dispatched goroutine does when it returns: <-sem, wg.Done()
Release(x) == [g EXCEPT ![x].st = "done"]

\* stride worker, top of  for j := wIdx; j < length; j += workers
StrideTop(x) ==
    /\ impl \in StrideImpls
    /\ g[x].st = "top"
    /\ LET j == g[x].it IN
       IF j >= length \/ (impl = "SAC_stride" /\ StopReady)
       THEN /\ g' = [g EXCEPT ![x].st = "done"]
            /\ UNCHANGED calls
       ELSE IF j \notin passing
       THEN /\ g' = [g EXCEPT ![x].it = StrideStep(j)]
            /\ UNCHANGED calls
       ELSE /\ g' = [g EXCEPT ![x].st = "run"]
            /\ calls' = [calls EXCEPT ![j] = @ + 1]
    /\ UNCHANGED << qvars, cfg, ctxDone, cancelCalled, pc, next, sem, outCh, ch, errCh,
                    closed, onceDone, consumer, recv, finished, callerOrder,
                    undispatched, sentOnClosed >>

\* result := selector(item) returns
SelectorReturn(x) ==
    /\ impl \in SelectImpls
    /\ g[x].st = "run"
    /\ g[x].it \notin faulty
    /\ g' = [g EXCEPT ![x].st = "pub"]
    /\ finished' = finished \cup {g[x].it}
    /\ UNCHANGED << qvars, cfg, ctxDone, cancelCalled, pc, next, sem, outCh, ch, errCh,
                    closed, onceDone, consumer, recv, calls, callerOrder,
                    undispatched, sentOnClosed >>

\* selector(item) panics; linq.go: the deferred recover() discards it and the
\* goroutine returns (a stride worker with it abandons the rest of its stride)
SelectorPanic(x) ==
    /\ impl \in StrideImpls \cup GenericImpls
    /\ g[x].st = "run"
    /\ g[x].it \in faulty
    /\ g' = Release(x)
    /\ sem' = IF impl \in GenericImpls THEN sem - 1 ELSE sem
    /\ UNCHANGED << qvars, cfg, ctxDone, cancelCalled, pc, next, outCh, ch, errCh, closed,
                    onceDone, consumer, recv, calls, finished, callerOrder,
                    undispatched, sentOnClosed >>

\* select { <-ctx.Done(); <-doneCh; outCh <- result }: a cancellation case
PublishStop(x) ==
    /\ impl \in SelectImpls
    /\ g[x].st = "pub"
    /\ StopReady
    /\ g' = Release(x)
    /\ sem' = IF impl \in StrideImpls THEN sem ELSE sem - 1
    /\ UNCHANGED << qvars, cfg, ctxDone, cancelCalled, pc, next, outCh, ch, errCh, closed,
                    onceDone, consumer, recv, calls, finished, callerOrder,
                    undispatched, sentOnClosed >>

\* case outCh <- result, buffered outCh (linq.go)
PublishSend(x) ==
    /\ impl \in StrideImpls \cup GenericImpls
    /\ g[x].st = "pub"
    /\ Len(outCh) < OutCap
    /\ outCh' = Append(outCh, g[x].it)
    /\ IF impl \in StrideImpls
       THEN /\ g' = [g EXCEPT ![x] = [st |-> "top", it |-> StrideStep(g[x].it)]]
            /\ UNCHANGED sem
       ELSE /\ g' = Release(x)
            /\ sem' = sem - 1
    /\ UNCHANGED << qvars, cfg, ctxDone, cancelCalled, pc, next, ch, errCh, closed,
                    onceDone, consumer, recv, calls, finished, callerOrder,
                    undispatched, sentOnClosed >>

\* capacity of errCh: make(chan any, workers)
ErrCap == workers

\* projection.go: the deferred recover(): select { case errCh <- r: cancel(); default: }
\* runs when selector(val) panics
SelectorPanicIter(x) ==
    /\ impl = "SAC_iter"
    /\ g[x].st = "run"
    /\ g[x].it \in faulty
    /\ IF errCh < ErrCap
       THEN errCh' = errCh + 1 /\ cancelCalled' = TRUE
       ELSE UNCHANGED << errCh, cancelCalled >>
    /\ g' = Release(x)
    /\ sem' = sem - 1
    /\ UNCHANGED << qvars, cfg, ctxDone, pc, next, outCh, ch, closed, onceDone, consumer,
                    recv, calls, finished, callerOrder, undispatched, sentOnClosed >>

\* projection.go: case outCh <- res chosen after the producer closed outCh: the
\* send panics and the same deferred recover() handles it
PublishOnClosed(x) ==
    /\ impl = "SAC_iter"
    /\ g[x].st = "pub"
    /\ closed.outCh > 0
    /\ sentOnClosed' = TRUE
    /\ IF errCh < ErrCap
       THEN errCh' = errCh + 1 /\ cancelCalled' = TRUE
       ELSE UNCHANGED << errCh, cancelCalled >>
    /\ g' = Release(x)
    /\ sem' = sem - 1
    /\ UNCHANGED << qvars, cfg, ctxDone, pc, next, outCh, ch, closed, onceDone, consumer,
                    recv, calls, finished, callerOrder, undispatched >>

----------------------------------------------------------------------------
(* SelectAsync / SelectAsyncCtx: the consumer of the result sequence *)

\* linq.go SelectAsync: item, ok = <-outCh; if !ok { closeOnce.Do(close(doneCh)) }
ConsumerNext ==
    /\ impl \in {"SA_stride", "SA_generic"}
    /\ consumer = "pull"
    /\ \/ /\ Len(outCh) > 0
          /\ recv' = [recv EXCEPT ![Head(outCh)] = @ + 1]
          /\ outCh' = Tail(outCh)
          /\ UNCHANGED << closed, onceDone, consumer >>
       \/ /\ Len(outCh) = 0 /\ closed.outCh > 0
          /\ closed' = CloseOnce(closed)
          /\ onceDone' = TRUE
          /\ consumer' = "ended"
          /\ UNCHANGED << recv, outCh >>
    /\ UNCHANGED << qvars, cfg, ctxDone, cancelCalled, pc, next, g, sem, ch, errCh, calls,
                    finished, callerOrder, undispatched, sentOnClosed >>

\* linq.go SelectAsyncCtx: select { <-ctx.Done(): closeOnce...; item, ok = <-outCh }
ConsumerNextCtx ==
    /\ impl \in {"SAC_stride", "SAC_generic"}
    /\ consumer = "pull"
    /\ \/ /\ ctxDone
          /\ closed' = CloseOnce(closed)
          /\ onceDone' = TRUE
          /\ consumer' = "ended"
          /\ UNCHANGED << recv, outCh >>
       \/ /\ Len(outCh) > 0
          /\ recv' = [recv EXCEPT ![Head(outCh)] = @ + 1]
          /\ outCh' = Tail(outCh)
          /\ UNCHANGED << closed, onceDone, consumer >>
       \/ /\ Len(outCh) = 0 /\ closed.outCh > 0
          /\ consumer' = "ended"
          /\ UNCHANGED << recv, outCh, closed, onceDone >>
    /\ UNCHANGED << qvars, cfg, ctxDone, cancelCalled, pc, next, g, sem, ch, errCh, calls,
                    finished, callerOrder, undispatched, sentOnClosed >>

\* the consumer stops calling next() (Take(K), First, ...): linq.go's pull
\* iterator is simply never called again
ConsumerAbandon ==
    /\ impl \in StrideImpls \cup GenericImpls
    /\ consumer = "pull"
    /\ consumer' = "abandoned"
    /\ UNCHANGED << qvars, cfg, ctxDone, cancelCalled, pc, next, g, sem, outCh, ch, errCh,
                    closed, onceDone, recv, calls, finished, callerOrder,
                    undispatched, sentOnClosed >>

\* projection.go: case <-ctx.Done(): return / case val, ok := <-outCh: if !ok
\* { return }; the deferred cancel() runs
ConsumerReturnIter ==
    /\ impl = "SAC_iter"
    /\ consumer = "pull"
    /\ ctxDone \/ closed.outCh > 0
    /\ consumer' = "ended"
    /\ cancelCalled' = TRUE
    /\ UNCHANGED << qvars, cfg, ctxDone, pc, next, g, sem, outCh, ch, errCh, closed,
                    onceDone, recv, calls, finished, callerOrder, undispatched,
                    sentOnClosed >>

\* projection.go: case panicErr := <-errCh: panic(panicErr)
ConsumerPanicIter ==
    /\ impl = "SAC_iter"
    /\ consumer = "pull"
    /\ errCh > 0
    /\ errCh' = errCh - 1
    /\ consumer' = "panicked"
    /\ cancelCalled' = TRUE
    /\ UNCHANGED << qvars, cfg, ctxDone, pc, next, g, sem, outCh, ch, closed, onceDone,
                    recv, calls, finished, callerOrder, undispatched, sentOnClosed >>

\* projection.go: a worker's  outCh <- res  meets the consumer's  <-outCh  on the
\* unbuffered outCh; then yield(val), and on false: cancel(); return
ConsumerRecvIter(x) ==
    /\ impl = "SAC_iter"
    /\ consumer = "pull"
    /\ g[x].st = "pub"
    /\ closed.outCh = 0
    /\ recv' = [recv EXCEPT ![g[x].it] = @ + 1]
    /\ g' = Release(x)
    /\ sem' = sem - 1
    /\ \/ UNCHANGED << consumer, cancelCalled >>
       \/ consumer' = "abandoned" /\ cancelCalled' = TRUE
    /\ UNCHANGED << qvars, cfg, ctxDone, pc, next, outCh, ch, errCh, closed, onceDone,
                    calls, finished, callerOrder, undispatched, sentOnClosed >>

----------------------------------------------------------------------------
(* Specification of SelectAsync / SelectAsyncCtx *)

ProducerStep ==
    \/ ProducerSpawnStride
    \/ ProducerStartGeneric
    \/ ProducerExhausted
    \/ ProducerCheck
    \/ ProducerStop
    \/ ProducerDispatch
    \/ ProducerClose
    \/ ProducerStopIter

WorkerStep(x) ==
    \/ StrideTop(x)
    \/ SelectorReturn(x)
    \/ SelectorPanic(x)
    \/ SelectorPanicIter(x)
    \/ PublishStop(x)
    \/ PublishSend(x)
    \/ PublishOnClosed(x)

NextSelect ==
    \/ Cancel
    \/ ProducerStep
    \/ \E x \in Gid : WorkerStep(x)
    \/ ConsumerNext
    \/ ConsumerNextCtx
    \/ ConsumerAbandon
    \/ ConsumerReturnIter
    \/ ConsumerPanicIter
    \/ \E x \in Gid : ConsumerRecvIter(x)

SpecSelect == InitSelect /\ [][NextSelect]_vars

----------------------------------------------------------------------------
(* ForEachParallel / ForEachParallelCtx *)

ForEachImpls == {"FE_seq", "FE_stride", "FE_chan", "FE_sem"}

\* linq.go dispatches on workers <= 1 and on q.fastSlice; action.go has one body
InitForEach ==
    /\ InitCommon
    /\ workers \in 0 .. MaxWorkers
    /\ impl \in {"FE_sem"} \cup (IF workers <= 1 THEN {"FE_seq"} ELSE {"FE_stride", "FE_chan"})
    /\ hasCtx \in BOOLEAN
    /\ consumer = "none"

\* linq.go, workers <= 1: q.ForEach(func(t T) bool {...}) on the calling thread
SeqStart ==
    /\ impl = "FE_seq"
    /\ pc = "start"
    /\ next' = NextPass(0)
    /\ pc' = "loop"
    /\ UNCHANGED << qvars, cfg, ctxDone, cancelCalled, g, sem, outCh, ch, errCh, closed,
                    onceDone, consumer, recv, calls, finished, callerOrder,
                    undispatched, sentOnClosed >>

\* select { case <-ctx.Done(): return false; default: action(t); return true }
SeqNext ==
    /\ impl = "FE_seq"
    /\ pc = "loop"
    /\ IF next >= length \/ (hasCtx /\ ctxDone)
       THEN /\ pc' = "returned"
            /\ UNCHANGED << calls, callerOrder >>
       ELSE /\ pc' = "call"
            /\ calls' = [calls EXCEPT ![next] = @ + 1]
            /\ callerOrder' = Append(callerOrder, next)
    /\ UNCHANGED << qvars, cfg, ctxDone, cancelCalled, next, g, sem, outCh, ch, errCh,
                    closed, onceDone, consumer, recv, finished, undispatched,
                    sentOnClosed >>

\* action(t) returns or panics on the calling thread (nothing recovers it there)
SeqActionDone ==
    /\ impl = "FE_seq"
    /\ pc = "call"
    /\ IF next \in faulty
       THEN /\ pc' = "panicked"
            /\ UNCHANGED << next, finished >>
       ELSE /\ pc' = "loop"
            /\ finished' = finished \cup {next}
            /\ next' = NextPass(next + 1)
    /\ UNCHANGED << qvars, cfg, ctxDone, cancelCalled, g, sem, outCh, ch, errCh, closed,
                    onceDone, consumer, recv, calls, callerOrder, undispatched,
                    sentOnClosed >>

\* linq.go fast path: if length == 0 { return }; wg.Add(workers); go func(wIdx int)
FESpawnStride ==
    /\ impl = "FE_stride"
    /\ pc = "start"
    /\ IF length = 0
       THEN pc' = "returned" /\ UNCHANGED g
       ELSE /\ pc' = "wait"
            /\ g' = [x \in Gid |-> IF x < workers THEN [st |-> "top", it |-> x] ELSE g[x]]
    /\ UNCHANGED << qvars, cfg, ctxDone, cancelCalled, next, sem, outCh, ch, errCh, closed,
                    onceDone, consumer, recv, calls, finished, callerOrder,
                    undispatched, sentOnClosed >>

\* for j := wIdx; j < length; j += workers { select { <-ctx.Done(): return; default: } ...
FEStrideTop(x) ==
    /\ impl = "FE_stride"
    /\ g[x].st = "top"
    /\ LET j == g[x].it IN
       IF j >= length \/ (hasCtx /\ ctxDone)
       THEN /\ g' = [g EXCEPT ![x].st = "done"]
            /\ UNCHANGED calls
       ELSE IF j \notin passing
       THEN /\ g' = [g EXCEPT ![x].it = StrideStep(j)]
            /\ UNCHANGED calls
       ELSE /\ g' = [g EXCEPT ![x].st = "run"]
            /\ calls' = [calls EXCEPT ![j] = @ + 1]
    /\ UNCHANGED << qvars, cfg, ctxDone, cancelCalled, pc, next, sem, outCh, ch, errCh,
                    closed, onceDone, consumer, recv, finished, callerOrder,
                    undispatched, sentOnClosed >>

\* linq.go channel path: ch := make(chan T, workers); wg.Add(workers); workers started
FESpawnChan ==
    /\ impl = "FE_chan"
    /\ pc = "start"
    /\ g' = [x \in Gid |-> IF x < workers THEN [st |-> "recv", it |-> 0] ELSE g[x]]
    /\ next' = NextPass(0)
    /\ pc' = "send"
    /\ UNCHANGED << qvars, cfg, ctxDone, cancelCalled, sem, outCh, ch, errCh, closed,
                    onceDone, consumer, recv, calls, finished, callerOrder,
                    undispatched, sentOnClosed >>

\* capacity of ch: make(chan T, workers)
ChCap == workers

\* select { case <-ctx.Done(): break Loop; case ch <- item: }, then close(ch)
FEChanSend ==
    /\ impl = "FE_chan"
    /\ pc = "send"
    /\ \/ /\ next >= length \/ (hasCtx /\ ctxDone)
          /\ closed' = [closed EXCEPT !.ch = @ + 1]
          /\ pc' = "wait"
          /\ UNCHANGED << ch, next >>
       \/ /\ next < length
          /\ Len(ch) < ChCap
          /\ ch' = Append(ch, next)
          /\ next' = NextPass(next + 1)
          /\ UNCHANGED << closed, pc >>
    /\ UNCHANGED << qvars, cfg, ctxDone, cancelCalled, g, sem, outCh, errCh, onceDone,
                    consumer, recv, calls, finished, callerOrder, undispatched,
                    sentOnClosed >>

\* worker: select { case <-ctx.Done(): return; case item, ok := <-ch: ... action(item) }
FEChanRecv(x) ==
    /\ impl = "FE_chan"
    /\ g[x].st = "recv"
    /\ \/ /\ (hasCtx /\ ctxDone) \/ (Len(ch) = 0 /\ closed.ch > 0)
          /\ g' = [g EXCEPT ![x].st = "done"]
          /\ UNCHANGED << ch, calls >>
       \/ /\ Len(ch) > 0
          /\ g' = [g EXCEPT ![x] = [st |-> "run", it |-> Head(ch)]]
          /\ calls' = [calls EXCEPT ![Head(ch)] = @ + 1]
          /\ ch' = Tail(ch)
    /\ UNCHANGED << qvars, cfg, ctxDone, cancelCalled, pc, next, sem, outCh, errCh, closed,
                    onceDone, consumer, recv, finished, callerOrder, undispatched,
                    sentOnClosed >>

\* linq.go: action(item) returns and the worker loops
ActionReturn(x) ==
    /\ impl \in {"FE_stride", "FE_chan"}
    /\ g[x].st = "run"
    /\ g[x].it \notin faulty
    /\ finished' = finished \cup {g[x].it}
    /\ g' = [g EXCEPT ![x] = IF impl = "FE_stride"
                                THEN [st |-> "top", it |-> StrideStep(g[x].it)]
                                ELSE [st |-> "recv", it |-> g[x].it]]
    /\ UNCHANGED << qvars, cfg, ctxDone, cancelCalled, pc, next, sem, outCh, ch, errCh,
                    closed, onceDone, consumer, recv, calls, callerOrder,
                    undispatched, sentOnClosed >>

\* linq.go: action(item) panics; the deferred recover() sits outside the loop, so
\* the worker goroutine ends
ActionPanic(x) ==
    /\ impl \in {"FE_stride", "FE_chan"}
    /\ g[x].st = "run"
    /\ g[x].it \in faulty
    /\ g' = [g EXCEPT ![x].st = "done"]
    /\ UNCHANGED << qvars, cfg, ctxDone, cancelCalled, pc, next, sem, outCh, ch, errCh,
                    closed, onceDone, consumer, recv, calls, finished, callerOrder,
                    undispatched, sentOnClosed >>

\* linq.go: wg.Wait() returns and the call returns
FEJoin ==
    /\ impl \in {"FE_stride", "FE_chan"}
    /\ pc = "wait"
    /\ AllJoined
    /\ pc' = "returned"
    /\ UNCHANGED << qvars, cfg, ctxDone, cancelCalled, next, g, sem, outCh, ch, errCh,
                    closed, onceDone, consumer, recv, calls, finished, callerOrder,
                    undispatched, sentOnClosed >>

----------------------------------------------------------------------------
(* ForEachParallelCtx, action.go: semaphore dispatch with errCh *)

\* sem, errCh and workerCtx are made; the loop over the source begins
SemStart ==
    /\ impl = "FE_sem"
    /\ pc = "start"
    /\ next' = NextPass(0)
    /\ pc' = "acquire"
    /\ UNCHANGED << qvars, cfg, ctxDone, cancelCalled, g, sem, outCh, ch, errCh, closed,
                    onceDone, consumer, recv, calls, finished, callerOrder,
                    undispatched, sentOnClosed >>

\* select { case <-workerCtx.Done(): break loop; case sem <- token{}: ;
\*          case panicErr := <-errCh: panic(panicErr) }
SemDispatch ==
    /\ impl = "FE_sem"
    /\ pc = "acquire"
    /\ \/ /\ next >= length \/ WorkerCtxDone
          /\ pc' = "wait"
          /\ UNCHANGED << next, g, sem, errCh, cancelCalled >>
       \/ /\ next < length
          /\ sem < SemCap
          /\ sem' = sem + 1
          /\ g' = [g EXCEPT ![next] = [st |-> "chk", it |-> next]]
          /\ next' = NextPass(next + 1)
          /\ UNCHANGED << pc, errCh, cancelCalled >>
       \/ /\ next < length
          /\ errCh > 0
          /\ errCh' = errCh - 1
          /\ pc' = "panicked"
          /\ cancelCalled' = TRUE
          /\ UNCHANGED << next, g, sem >>
    /\ UNCHANGED << qvars, cfg, ctxDone, outCh, ch, closed, onceDone, consumer, recv,
                    calls, finished, callerOrder, undispatched, sentOnClosed >>

\* worker: select { case <-workerCtx.Done(): return; default: action(val) }
SemWorkerCheck(x) ==
    /\ impl = "FE_sem"
    /\ g[x].st = "chk"
    /\ IF WorkerCtxDone
       THEN /\ g' = Release(x)
            /\ sem' = sem - 1
            /\ UNCHANGED calls
       ELSE /\ g' = [g EXCEPT ![x].st = "run"]
            /\ calls' = [calls EXCEPT ![g[x].it] = @ + 1]
            /\ UNCHANGED sem
    /\ UNCHANGED << qvars, cfg, ctxDone, cancelCalled, pc, next, outCh, ch, errCh, closed,
                    onceDone, consumer, recv, finished, callerOrder, undispatched,
                    sentOnClosed >>

\* action(val) returns; deferred <-sem and wg.Done()
SemActionReturn(x) ==
    /\ impl = "FE_sem"
    /\ g[x].st = "run"
    /\ g[x].it \notin faulty
    /\ finished' = finished \cup {g[x].it}
    /\ g' = Release(x)
    /\ sem' = sem - 1
    /\ UNCHANGED << qvars, cfg, ctxDone, cancelCalled, pc, next, outCh, ch, errCh, closed,
                    onceDone, consumer, recv, calls, callerOrder, undispatched,
                    sentOnClosed >>

\* action(val) panics: recover(); select { case errCh <- r: cancel(); default: }
SemActionPanic(x) ==
    /\ impl = "FE_sem"
    /\ g[x].st = "run"
    /\ g[x].it \in faulty
    /\ IF errCh < ErrCap
       THEN errCh' = errCh + 1 /\ cancelCalled' = TRUE
       ELSE UNCHANGED << errCh, cancelCalled >>
    /\ g' = Release(x)
    /\ sem' = sem - 1
    /\ UNCHANGED << qvars, cfg, ctxDone, pc, next, outCh, ch, closed, onceDone, consumer,
                    recv, calls, finished, callerOrder, undispatched, sentOnClosed >>

\* wg.Wait(); close(errCh); for panicErr := range errCh { panic(panicErr) };
\* the deferred cancel() runs on the way out
SemJoin ==
    /\ impl = "FE_sem"
    /\ pc = "wait"
    /\ AllJoined
    /\ closed' = [closed EXCEPT !.errCh = @ + 1]
    /\ IF errCh > 0
       THEN pc' = "panicked" /\ errCh' = errCh - 1
       ELSE pc' = "returned" /\ UNCHANGED errCh
    /\ cancelCalled' = TRUE
    /\ UNCHANGED << qvars, cfg, ctxDone, next, g, sem, outCh, ch, onceDone, consumer, recv,
                    calls, finished, callerOrder, undispatched, sentOnClosed >>

----------------------------------------------------------------------------
(* Specification of ForEachParallel / ForEachParallelCtx *)

CallerStep ==
    \/ SeqStart
    \/ SeqNext
    \/ SeqActionDone
    \/ FESpawnStride
    \/ FESpawnChan
    \/ FEChanSend
    \/ FEJoin
    \/ SemStart
    \/ SemDispatch
    \/ SemJoin

FEWorkerStep(x) ==
    \/ FEStrideTop(x)
    \/ FEChanRecv(x)
    \/ ActionReturn(x)
    \/ ActionPanic(x)
    \/ SemWorkerCheck(x)
    \/ SemActionReturn(x)
    \/ SemActionPanic(x)

NextForEach ==
    \/ Cancel
    \/ CallerStep
    \/ \E x \in Gid : FEWorkerStep(x)

SpecForEach == InitForEach /\ [][NextForEach]_vars

----------------------------------------------------------------------------
(* Both operator families together *)

Init == InitSelect \/ InitForEach

Next == NextSelect \/ NextForEach

Spec == Init /\ [][Next]_vars

\* a consumer that has not abandoned the sequence calls next() again
ConsumerStep ==
    \/ ConsumerNext
    \/ ConsumerNextCtx
    \/ ConsumerReturnIter
    \/ ConsumerPanicIter
    \/ \E x \in Gid : ConsumerRecvIter(x)

\* the Go scheduler runs every runnable goroutine, and callbacks return
FairSelect ==
    /\ SpecSelect
    /\ WF_vars(ProducerStep)
    /\ \A x \in Gid : WF_vars(WorkerStep(x))
    /\ WF_vars(ConsumerStep)

----------------------------------------------------------------------------
(* Properties *)

GoroutinesDone == pc = "done" /\ AllJoined

CallbacksInProgress == Cardinality(InProgress) + (IF pc = "call" THEN 1 ELSE 0)

Expected(i) == IF i \in passing THEN 1 ELSE 0

\* C1: once the consumer of a SelectAsync / SelectAsyncCtx result has stopped
\* pulling and no context is cancelled, no worker or producer goroutine is left
\* blocked: when none of them can take a step, all of them have terminated.
C1_NoLeakOnAbandon ==
    (/\ impl \in SelectImpls
     /\ consumer = "abandoned"
     /\ ~ctxDone
     /\ ~ENABLED (ProducerStep \/ \E x \in Gid : WorkerStep(x)))
    => GoroutinesDone

\* C2: after the context of SelectAsyncCtx is cancelled, every worker and the
\* producer terminate and the result sequence is no longer being pulled.
C2_CancelStopsAll ==
    (impl \in CtxImpls /\ ctxDone) ~> (GoroutinesDone /\ consumer # "pull")

\* C2 witness: cancellation cut the work short and everything has terminated
C2_Witness ==
    /\ impl \in CtxImpls /\ ctxDone
    /\ GoroutinesDone /\ consumer = "ended"
    /\ \E i \in passing : calls[i] = 0
    /\ \E i \in passing : calls[i] = 1

\* C3: ForEachParallel / ForEachParallelCtx have left the call (by return or by
\* panic) only when every worker goroutine they started has finished.
C3_ReturnAfterJoin ==
    (impl \in ForEachImpls /\ pc \in {"returned", "panicked"}) => AllJoined

\* C4: ForEachParallel with N > 1 and exactly one panicking element returns
\* normally, having completed the action for exactly the other elements.
C4_OnePanicIsolated ==
    (/\ impl \in ForEachImpls
     /\ workers > 1
     /\ ~ctxDone
     /\ Cardinality(faulty) = 1
     /\ pc \in {"returned", "panicked"})
    => (pc = "returned" /\ finished = passing \ faulty)

\* C5: SelectAsync with exactly one panicking element, fully consumed, ends
\* normally after yielding exactly the results of the other elements.
C5_OnePanicDropsOneResult ==
    (/\ impl \in SelectImpls
     /\ ~ctxDone
     /\ Cardinality(faulty) = 1
     /\ consumer \in {"ended", "panicked"})
    => (/\ consumer = "ended"
        /\ \A i \in Idx : recv[i] = (IF i \in faulty THEN 0 ELSE Expected(i)))

\* C6: with workers <= 1 ForEachParallel / ForEachParallelCtx start no goroutine:
\* every action runs on the calling thread, in source order, and the call does
\* not stay blocked.
C6_SequentialFastPath ==
    (impl \in ForEachImpls /\ workers <= 1)
    => (/\ \A x \in Gid : g[x].st = "idle"
        /\ \A k \in 1 .. Len(callerOrder) : \A m \in 1 .. Len(callerOrder) :
               k < m => callerOrder[k] < callerOrder[m]
        /\ (pc \in {"returned", "panicked"} \/ ENABLED CallerStep))

C8_ExactlyOnce ==
    /\ \A i \in Idx : calls[i] <= 1
    /\ (/\ faulty = {}
        /\ ~ctxDone
        /\ \/ impl \in SelectImpls /\ consumer = "ended"
           \/ impl \in ForEachImpls /\ pc = "returned")
       => \A i \in Idx : calls[i] = Expected(i)

\* C8 witness: a stride-partitioned run over a filtered slice has completed
C8_Witness ==
    /\ impl = "SA_stride" /\ consumer = "ended"
    /\ faulty = {} /\ workers = MaxWorkers /\ length = MaxLen
    /\ passing # Source
    /\ \A i \in passing : recv[i] = 1

\* C9: an element that had not been handed to a worker when the context of
\* ForEachParallelCtx was cancelled is never processed.
C9_NoStartAfterCancel ==
    impl \in ForEachImpls => \A i \in undispatched : calls[i] = 0

\* C10: doneCh, outCh, errCh (and ch) are each closed at most once.
C10_CloseAtMostOnce ==
    /\ closed.doneCh <= 1
    /\ closed.outCh <= 1
    /\ closed.errCh <= 1
    /\ closed.ch <= 1

\* C10 witness: producer and consumer of SelectAsyncCtx both took their
\* ctx.Done() branch, and doneCh and outCh are closed
C10_Witness ==
    /\ impl = "SAC_generic" /\ ctxDone
    /\ pc = "done" /\ consumer = "ended" /\ next < length
    /\ closed.doneCh = 1 /\ closed.outCh = 1

----------------------------------------------------------------------------
(* Sequential query operators                                              *)
(*                                                                         *)
(* A Query is the record [fast, fastSlice, fastWhere, iterate].  The       *)
(* iterators keep their position and flags in variables created on every   *)
(* call of iterate, so over an unchanged source iterate is represented by  *)
(* the sequence it yields; each loop below is the loop of the source.      *)

MaxOps == 2

\* From([]int{0, 1, ..., L-1})
Ident(L) == [i \in 1 .. L |-> i - 1]

\* the concurrent operators are not running
ConcIdle ==
    /\ impl = "none"
    /\ workers = 0
    /\ length = 0
    /\ passing = {}
    /\ faulty = {}
    /\ hasCtx = FALSE
    /\ ctxDone = FALSE
    /\ cancelCalled = FALSE
    /\ pc = "start"
    /\ next = 0
    /\ g = [x \in Gid |-> [st |-> "idle", it |-> 0]]
    /\ sem = 0
    /\ outCh = << >>
    /\ ch = << >>
    /\ errCh = 0
    /\ closed = [outCh |-> 0, doneCh |-> 0, errCh |-> 0, ch |-> 0]
    /\ onceDone = FALSE
    /\ consumer = "none"
    /\ recv = [i \in Idx |-> 0]
    /\ calls = [i \in Idx |-> 0]
    /\ finished = {}
    /\ callerOrder = << >>
    /\ undispatched = {}
    /\ sentOnClosed = FALSE

\* predicates handed to Where: a conjunction of the atoms "even" and "pos"
Atom(a, x) == IF a = "even" THEN x % 2 = 0 ELSE x > 0

PredHolds(P, x) == \A a \in P : Atom(a, x)

Preds == {{"even"}, {"pos"}}

\* selectors handed to Select
Selectors == {"inc", "flip"}

Selector(f, x) == IF f = "inc" THEN x + 1 ELSE MaxLen - x

\* counts handed to Skip and Take
Counts == (0 - 1) .. (MaxLen + 1)

\* CombinedPred that forgets the accumulated predicate
CombinedPredLast(ps, x) == PredHolds(ps[Len(ps)], x)

\* combinedPred = func(t T) bool { return oldPred(t) && predicate(t) }:
\* ps lists the predicates in application order
RECURSIVE CombinedPred(_, _)
CombinedPred(ps, x) ==
    IF Len(ps) = 1
    THEN PredHolds(ps[1], x)
    ELSE CombinedPred(SubSeq(ps, 1, Len(ps) - 1), x) /\ PredHolds(ps[Len(ps)], x)

\* for _, item := range source { if combinedPred(item) { yield(item) } }
RECURSIVE WhereLoop(_, _, _)
WhereLoop(src, ps, out) ==
    IF src = << >>
    THEN out
    ELSE WhereLoop(Tail(src), ps,
                   IF CombinedPred(ps, Head(src)) THEN Append(out, Head(src)) ELSE out)

\* linq.go Skip: for ; n > 0; n-- { item, ok = next(); if !ok { return } }; return next()
RECURSIVE SkipPull(_, _, _)
SkipPull(up, n, out) ==
    IF n > 0
    THEN IF up = << >> THEN out ELSE SkipPull(Tail(up), n - 1, out)
    ELSE IF up = << >> THEN out ELSE SkipPull(Tail(up), n, Append(out, Head(up)))

\* iter.Seq Skip: for item := range q.iterate { if n > 0 { n--; continue }; yield(item) }
RECURSIVE SkipSeq(_, _, _)
SkipSeq(up, n, out) ==
    IF up = << >>
    THEN out
    ELSE IF n > 0
         THEN SkipSeq(Tail(up), n - 1, out)
         ELSE SkipSeq(Tail(up), n, Append(out, Head(up)))

\* linq.go Take: if n <= 0 { return }; n--; return next()
RECURSIVE TakePull(_, _, _)
TakePull(up, n, out) ==
    IF n <= 0
    THEN out
    ELSE IF up = << >>
         THEN out
         ELSE TakePull(Tail(up), n - 1, Append(out, Head(up)))

\* iter.Seq Take: for item := range q.iterate { if n <= 0 { break }; n--; yield(item) }
RECURSIVE TakeSeq(_, _, _)
TakeSeq(up, n, out) ==
    IF up = << >>
    THEN out
    ELSE IF n <= 0
         THEN out
         ELSE TakeSeq(Tail(up), n - 1, Append(out, Head(up)))

\* linq.go Select over a slice: skip what the predicate rejects, project the rest
RECURSIVE SelectFastLoop(_, _, _, _)
SelectFastLoop(src, ps, f, out) ==
    IF src = << >>
    THEN out
    ELSE SelectFastLoop(Tail(src), ps, f,
                        IF ps # << >> /\ ~CombinedPred(ps, Head(src))
                        THEN out
                        ELSE Append(out, Selector(f, Head(src))))

\* for item := range q.iterate { yield(selector(item)) }
SelectLoop(up, f) == [i \in 1 .. Len(up) |-> Selector(f, up[i])]

\* a query without fast path: Query[T]{iterate: ...}
Generic(it) == [fast |-> FALSE, fastSlice |-> << >>, fastWhere |-> << >>, iterate |-> it]

\* From(source) of a non-nil slice
From(source) ==
    [fast |-> TRUE, fastSlice |-> source, fastWhere |-> << >>, iterate |-> source]

\* From(nil): fastSlice is nil, the iterator yields nothing
FromNil == Generic(<< >>)

\* FromChannel(source) of a channel that carries the elements and is closed
FromChannel(source) == Generic(source)

\* From([]T{}) / Empty[T]()
Empty == From(<< >>)

\* SliceFrom with the lower index one too small
SliceFromOffByOne(s, count) == SubSeq(s, count, Len(s))

\* q.fastSlice[count:]
SliceFrom(s, count) == SubSeq(s, count + 1, Len(s))

\* SliceTo with the upper index one too large
SliceToOffByOne(s, count) == SubSeq(s, 1, count + 1)

\* q.fastSlice[:count]
SliceTo(s, count) == SubSeq(s, 1, count)

Where(q, predicate) ==
    IF q.fast
    THEN LET combinedPred == IF q.fastWhere = << >>
                             THEN << predicate >>
                             ELSE Append(q.fastWhere, predicate)
         IN  [fast |-> TRUE, fastSlice |-> q.fastSlice, fastWhere |-> combinedPred,
              iterate |-> WhereLoop(q.fastSlice, combinedPred, << >>)]
    ELSE Generic(WhereLoop(q.iterate, << predicate >>, << >>))

Skip(q, count) ==
    IF q.fast /\ q.fastWhere = << >>
    THEN IF count >= Len(q.fastSlice) THEN Empty
         ELSE IF count <= 0 THEN q
         ELSE From(SliceFrom(q.fastSlice, count))
    ELSE Generic(IF rev = "pull"
                 THEN SkipPull(q.iterate, count, << >>)
                 ELSE SkipSeq(q.iterate, count, << >>))

Take(q, count) ==
    IF q.fast /\ q.fastWhere = << >>
    THEN IF count <= 0 THEN Empty
         ELSE IF count >= Len(q.fastSlice) THEN q
         ELSE From(SliceTo(q.fastSlice, count))
    ELSE Generic(IF rev = "pull"
                 THEN TakePull(q.iterate, count, << >>)
                 ELSE TakeSeq(q.iterate, count, << >>))

\* linq.go has a slice path; projection.go always ranges over q.iterate
Select(q, selector) ==
    IF rev = "pull" /\ q.fast
    THEN Generic(SelectFastLoop(q.fastSlice, q.fastWhere, selector, << >>))
    ELSE Generic(SelectLoop(q.iterate, selector))

\* a copy of the slice, the filtered slice, or the collected iterator
ToSlice(q) ==
    IF q.fast
    THEN IF q.fastWhere = << >>
         THEN q.fastSlice
         ELSE WhereLoop(q.fastSlice, q.fastWhere, << >>)
    ELSE q.iterate

Op(o, P, f, c) == [op |-> o, p |-> P, f |-> f, c |-> c]

InitChain ==
    /\ ConcIdle
    /\ rev \in {"pull", "seq"}
    /\ \E L \in 0 .. MaxLen : data = Ident(L)
    /\ qs \in {From(data)} \cup (IF data = << >> THEN {FromNil} ELSE {})
    /\ qc = FromChannel(data)
    /\ hist = << >>
    /\ outS = << >>
    /\ outC = << >>
    /\ done = FALSE
    /\ tie = "keep"
    /\ IterIdle
    /\ SortIdle
    /\ SetIdle
    /\ CallIdle
    /\ TakeIdle

ApplyWhere(P) ==
    /\ ~done
    /\ Len(hist) < MaxOps
    /\ qs' = Where(qs, P)
    /\ qc' = Where(qc, P)
    /\ hist' = Append(hist, Op("where", P, "", 0))
    /\ UNCHANGED << nonChain, rev, data, outS, outC, done >>

ApplySelect(f) ==
    /\ ~done
    /\ Len(hist) < MaxOps
    /\ qs' = Select(qs, f)
    /\ qc' = Select(qc, f)
    /\ hist' = Append(hist, Op("select", {}, f, 0))
    /\ UNCHANGED << nonChain, rev, data, outS, outC, done >>

ApplySkip(c) ==
    /\ ~done
    /\ Len(hist) < MaxOps
    /\ qs' = Skip(qs, c)
    /\ qc' = Skip(qc, c)
    /\ hist' = Append(hist, Op("skip", {}, "", c))
    /\ UNCHANGED << nonChain, rev, data, outS, outC, done >>

ApplyTake(c) ==
    /\ ~done
    /\ Len(hist) < MaxOps
    /\ qs' = Take(qs, c)
    /\ qc' = Take(qc, c)
    /\ hist' = Append(hist, Op("take", {}, "", c))
    /\ UNCHANGED << nonChain, rev, data, outS, outC, done >>

\* the chain is terminated over both sources
Terminate ==
    /\ ~done
    /\ outS' = ToSlice(qs)
    /\ outC' = ToSlice(qc)
    /\ done' = TRUE
    /\ UNCHANGED << nonChain, rev, data, qs, qc, hist >>

NextChain ==
    \/ \E P \in Preds : ApplyWhere(P)
    \/ \E f \in Selectors : ApplySelect(f)
    \/ \E c \in Counts : ApplySkip(c)
    \/ \E c \in Counts : ApplyTake(c)
    \/ Terminate

SpecChain == InitChain /\ [][NextChain]_vars

(* Properties of operator chains *)

\* C11: a chain of Where, Select, Take and Skip terminated over From(data)
\* yields exactly the element sequence the same chain yields over
\* FromChannel carrying the same elements in the same order
C11_SliceEqualsChannel == done => outS = outC

\* a Skip on the slice path followed by a fused Where, some elements kept
C11_Witness ==
    /\ done
    /\ Len(hist) = 2
    /\ hist[1].op = "skip" /\ hist[1].c = 1
    /\ hist[2].op = "where"
    /\ qs.fast /\ ~qc.fast
    /\ outS # << >>
    /\ Len(outS) < Len(data) - 1

AllWhere == \A k \in 1 .. Len(hist) : hist[k].op = "where"

\* the K predicates AND-ed into one predicate
AndOf(h) == UNION { h[k].p : k \in 1 .. Len(h) }

\* C12: K >= 1 chained Where calls on a slice-backed query yield the same
\* output, membership and order, as one Where with the K predicates AND-ed
C12_WhereFusion ==
    (done /\ Len(hist) >= 1 /\ AllWhere)
        => outS = ToSlice(Where(From(data), AndOf(hist)))

\* two different predicates fused on the slice path, some elements dropped
C12_Witness ==
    /\ done
    /\ Len(hist) >= 2
    /\ AllWhere
    /\ hist[1].p # hist[2].p
    /\ qs.fast /\ Len(qs.fastWhere) = Len(hist)
    /\ outS # << >>
    /\ Len(outS) < Len(data)

\* elements of s at the Go indices lo .. hi-1
SubRange(s, lo, hi) == [i \in 1 .. (hi - lo) |-> s[lo + i]]

Max(a, b) == IF a > b THEN a ELSE b

Min(a, b) == IF a < b THEN a ELSE b

\* C14: on a slice-backed query of length L without predicate, Skip(c) yields
\* the elements at indices max(c,0) .. L-1 (none when c >= L) and Take(c) those
\* at indices 0 .. min(c,L)-1 (none when c <= 0), as a sub-range of the slice
C14_SkipTakeSubRange ==
    (done /\ Len(hist) = 1 /\ hist[1].op \in {"skip", "take"})
        => LET c == hist[1].c
               L == Len(data)
               want == IF hist[1].op = "skip"
                       THEN IF c >= L THEN << >> ELSE SubRange(data, Max(c, 0), L)
                       ELSE IF c <= 0 THEN << >> ELSE SubRange(data, 0, Min(c, L))
           IN  /\ outS = want
               /\ L > 0 => (qs.fast /\ qs.fastWhere = << >> /\ qs.fastSlice = want)

\* a Take that cuts a proper, non-empty prefix
C14_Witness ==
    /\ done
    /\ Len(hist) = 1
    /\ hist[1].op = "take"
    /\ hist[1].c > 0 /\ hist[1].c < Len(data)
    /\ Len(outS) = hist[1].c
    /\ qs.fast

----------------------------------------------------------------------------
(* Ordering: keys, comparator chains and the sort routine *)

MaxVal == 2

Vals == 0 .. MaxVal

\* the slices a caller may pass to From
Slices == UNION { [1 .. L -> Vals] : L \in 0 .. MaxLen }

\* key selectors handed to OrderBy / ThenBy
Key(k, x) == IF k = "parity" THEN x % 2 ELSE IF k = "half" THEN x \div 2 ELSE x

\* an ordering key: ascending, or descending
Asc(k) == [key |-> k, desc |-> FALSE, nil |-> FALSE]

Desc(k) == [key |-> k, desc |-> TRUE, nil |-> FALSE]

\* sort.go: cmp.Compare(key(a), key(b)); descending exchanges a and b
KeyCompare(o, x, y) ==
    LET a == IF o.desc THEN Key(o.key, y) ELSE Key(o.key, x)
        b == IF o.desc THEN Key(o.key, x) ELSE Key(o.key, y)
    IN  IF a < b THEN 0 - 1 ELSE IF a > b THEN 1 ELSE 0

\* ChainCompare that lets the later key decide alone
ChainCompareLastOnly(c, x, y) == KeyCompare(c[Len(c)], x, y)

\* sort.go chainComparisons: if r := a(x, y); r != 0 { return r }; return b(x, y)
RECURSIVE ChainCompare(_, _, _)
ChainCompare(c, x, y) ==
    IF Len(c) = 1
    THEN KeyCompare(c[1], x, y)
    ELSE LET r == ChainCompare(SubSeq(c, 1, Len(c) - 1), x, y)
         IN  IF r # 0 THEN r ELSE KeyCompare(c[Len(c)], x, y)

\* linq.go: key(data[i]) < key(data[j]), or > for a descending key
KeyLess(o, x, y) ==
    IF o.desc THEN Key(o.key, x) > Key(o.key, y) ELSE Key(o.key, x) < Key(o.key, y)

\* linq.go chainLessers: a(i, j) || !a(j, i) && b(i, j)
RECURSIVE ChainLess(_, _, _)
ChainLess(c, x, y) ==
    IF Len(c) = 1
    THEN KeyLess(c[1], x, y)
    ELSE LET front == SubSeq(c, 1, Len(c) - 1)
         IN  \/ ChainLess(front, x, y)
             \/ ~ChainLess(front, y, x) /\ KeyLess(c[Len(c)], x, y)

\* "x sorts before y" as the revision's sort call sees it
Less(c, x, y) == IF rev = "pull" THEN ChainLess(c, x, y) ELSE ChainCompare(c, x, y) < 0

\* sort.Slice / slices.SortFunc, neither of them stable: an element moves left
\* past the elements it is less than and, when tie = "swap", past its equals
RECURSIVE Insert(_, _, _)
Insert(sorted, x, c) ==
    IF sorted = << >>
    THEN << x >>
    ELSE LET last == sorted[Len(sorted)]
         IN  IF Less(c, x, last) \/ (tie = "swap" /\ ~Less(c, last, x))
             THEN Append(Insert(SubSeq(sorted, 1, Len(sorted) - 1), x, c), last)
             ELSE Append(sorted, x)

RECURSIVE SortLoop(_, _, _)
SortLoop(rest, sorted, c) ==
    IF rest = << >>
    THEN sorted
    ELSE SortLoop(Tail(rest), Insert(sorted, Head(rest), c), c)

\* the slice after the sort call
Sorted(s, c) == SortLoop(s, << >>, c)

----------------------------------------------------------------------------
(* Repeated termination of one query: the iterator's variables             *)

MaxRuns == 2

\* the query the operator is applied to: From(data) or From(data).Where(pre)
Base(q) == IF q.pre = << >> THEN From(data) ELSE Where(From(data), q.pre[1])

\* Skip and Take of a predicate-free slice query return a slice query
SlicePath(q) == q.op \in {"skip", "take"} /\ Base(q).fast /\ Base(q).fastWhere = << >>

\* OrderBy(q, parity)
OrderKey == << Asc("parity") >>

\* the slice the iterator ranges over: the sub-slice, the sorted copy that
\* ToSlice returned, or the captured source
Walk(q) ==
    IF SlicePath(q)
    THEN (IF q.op = "skip" THEN Skip(Base(q), q.c) ELSE Take(Base(q), q.c)).fastSlice
    ELSE IF q.op = "orderBy"
         THEN Sorted(ToSlice(Base(q)), OrderKey)
         ELSE data

\* NewIter with index, n, the flag and the set declared outside iterate
NewIterStale(q, old) ==
    IF old.walk = << >> /\ old.index = 0
    THEN [walk |-> Walk(q), index |-> 0, n |-> q.c, flag |-> TRUE, set |-> {}]
    ELSE old

\* the variables a call of iterate declares: index := 0, n := count,
\* active / skipping := true, set := make(map[T]struct{})
NewIter(q, old) == [walk |-> Walk(q), index |-> 0, n |-> q.c, flag |-> TRUE, set |-> {}]

\* the loop skips what the accumulated predicate rejects
PreFiltered(q) == ~SlicePath(q) /\ q.op # "orderBy" /\ q.pre # << >>

\* linq.go Take: if n <= 0 { return } before the upstream is pulled
TakeSpent(q, s) == rev = "pull" /\ q.op = "take" /\ ~SlicePath(q) /\ s.n <= 0

\* one element of the walk: the iterator's variables afterwards, and whether
\* the element is passed over, yielded, or ends the iteration
Visit(q, s, item) ==
    LET moved == [s EXCEPT !.index = @ + 1]
        skip == [iter |-> moved, act |-> "skip"]
        yield == [iter |-> moved, act |-> "yield"]
    IN  IF PreFiltered(q) /\ ~CombinedPred(q.pre, item) THEN skip
        ELSE CASE q.op = "skip" /\ ~SlicePath(q) ->
                    IF s.n > 0
                    THEN [iter |-> [moved EXCEPT !.n = @ - 1], act |-> "skip"]
                    ELSE yield
               [] q.op = "take" /\ ~SlicePath(q) ->
                    IF s.n <= 0
                    THEN [iter |-> moved, act |-> "stop"]
                    ELSE [iter |-> [moved EXCEPT !.n = @ - 1], act |-> "yield"]
               [] q.op = "takeWhile" ->
                    IF ~PredHolds(q.p, item)
                    THEN [iter |-> [moved EXCEPT !.flag = FALSE], act |-> "stop"]
                    ELSE yield
               [] q.op = "skipWhile" ->
                    IF s.flag /\ PredHolds(q.p, item)
                    THEN skip
                    ELSE [iter |-> [moved EXCEPT !.flag = FALSE], act |-> "yield"]
               [] q.op = "distinct" ->
                    IF item \in s.set
                    THEN skip
                    ELSE [iter |-> [moved EXCEPT !.set = @ \cup {item}], act |-> "yield"]
               [] OTHER -> yield

TQ(o, c, P, pre) == [op |-> o, c |-> c, p |-> P, pre |-> pre]

\* the queries under repeated termination
Queries ==
    { TQ(o[1], o[2], o[3], pre) :
        o \in {<<"where", 0, {}>>, <<"distinct", 0, {}>>, <<"orderBy", 0, {}>>}
              \cup { <<k, c, {}>> : k \in {"skip", "take"}, c \in Counts }
              \cup { <<k, 0, P>> : k \in {"takeWhile", "skipWhile"}, P \in Preds },
        pre \in {<< >>, << {"even"} >>} }

InitIter ==
    /\ ConcIdle
    /\ ChainIdle
    /\ rev \in {"pull", "seq"}
    /\ data \in Slices
    /\ orig = data
    /\ tq \in Queries
    /\ tie \in (IF tq.op = "orderBy" THEN {"keep", "swap"} ELSE {"keep"})
    /\ iter = NoIter
    /\ acc = << >>
    /\ runs = << >>
    /\ term = "none"
    /\ SortIdle
    /\ SetIdle
    /\ CallIdle
    /\ TakeIdle

\* a termination begins: ToSlice collects everything, First stops at the first element
IterStart(t) ==
    /\ term = "none"
    /\ tq.op # "none"
    /\ Len(runs) < MaxRuns
    /\ term' = t
    /\ iter' = NewIter(tq, iter)
    /\ acc' = << >>
    /\ UNCHANGED << nonIter, rev, data, tie, tq, runs, orig >>

\* the iterator reports the end, the termination returns
IterEnd ==
    /\ term # "none"
    /\ iter.index >= Len(iter.walk) \/ TakeSpent(tq, iter)
    /\ runs' = Append(runs, [term |-> term, out |-> acc])
    /\ term' = "none"
    /\ UNCHANGED << nonIter, rev, data, tie, tq, iter, acc, orig >>

\* the iterator looks at the next element of the slice
IterRead ==
    /\ term # "none"
    /\ iter.index < Len(iter.walk)
    /\ ~TakeSpent(tq, iter)
    /\ LET item == iter.walk[iter.index + 1]
           v == Visit(tq, iter, item)
       IN  /\ iter' = v.iter
           /\ CASE v.act = "skip" -> UNCHANGED << acc, runs, term >>
                [] v.act = "stop" ->
                     /\ runs' = Append(runs, [term |-> term, out |-> acc])
                     /\ term' = "none"
                     /\ UNCHANGED acc
                [] OTHER ->
                     IF term = "First"
                     THEN /\ acc' = << item >>
                          /\ runs' = Append(runs, [term |-> term, out |-> << item >>])
                          /\ term' = "none"
                     ELSE /\ acc' = Append(acc, item)
                          /\ UNCHANGED << runs, term >>
    /\ UNCHANGED << nonIter, rev, data, tie, tq, orig >>

NextIter ==
    \/ \E t \in {"ToSlice", "First"} : IterStart(t)
    \/ IterEnd
    \/ IterRead

SpecIter == InitIter /\ [][NextIter]_vars

----------------------------------------------------------------------------
(* OrderBy / OrderByDescending / ThenBy / ThenByDescending                 *)
(*                                                                         *)
(* An ordered query is [compare, fault, iterate, sorted, sortSource]:      *)
(* compare is the comparator chain (empty: nil, HasOrder() is false),      *)
(* fault says that iterating calls a nil function, iterate is the sequence *)
(* yielded otherwise, sorted is "sortSource != nil" and sortSource is what *)
(* the query behind that pointer collects to.                              *)

\* q.lesser of a query that was never ordered, captured by linq.go ThenBy
NilKey == [key |-> "", desc |-> FALSE, nil |-> TRUE]

HasNil(c) == \E k \in 1 .. Len(c) : c[k].nil

\* q.compare != nil / q.lesser != nil
HasOrder(q) == q.compare # << >>

FromOrdered(source) ==
    [compare |-> << >>, fault |-> FALSE, iterate |-> source,
     sorted |-> FALSE, sortSource |-> << >>]

\* sort.go orderBy: sort what the first unordered source collects to
orderBy(q, cmpFn) ==
    LET source == IF q.sorted THEN q.sortSource ELSE q.iterate
    IN  [compare |-> cmpFn, fault |-> FALSE, iterate |-> Sorted(source, cmpFn),
         sorted |-> TRUE, sortSource |-> source]

\* linq.go / orderby.go orderByLesser: data := q.ToSlice(); sort.Slice(data, lesser(data));
\* lesser(data) calls every link of the chain, a nil link panics
orderByLesser(q, lesser) ==
    LET faults == q.fault \/ HasNil(lesser)
    IN  [compare |-> lesser, fault |-> faults,
         iterate |-> IF faults THEN << >> ELSE Sorted(q.iterate, lesser),
         sorted |-> FALSE, sortSource |-> << >>]

OrderBy(q, o) == IF rev = "pull" THEN orderByLesser(q, << o >>) ELSE orderBy(q, << o >>)

\* sort.go returns q when it has no order; linq.go chains onto q.lesser as it is
ThenBy(q, o) ==
    IF rev = "pull"
    THEN orderByLesser(q, Append(IF HasOrder(q) THEN q.compare ELSE << NilKey >>, o))
    ELSE IF ~HasOrder(q) THEN q ELSE orderBy(q, Append(q.compare, o))

Keys == {"parity", "half"}

Orderings == { Asc(k) : k \in Keys } \cup { Desc(k) : k \in Keys }

InitSort ==
    /\ CallIdle
    /\ TakeIdle
    /\ ConcIdle
    /\ ChainIdle
    /\ IterIdle
    /\ SetIdle
    /\ rev \in {"pull", "seq"}
    /\ tie \in {"keep", "swap"}
    /\ data \in Slices
    /\ oq = FromOrdered(data)
    /\ ohist = << >>
    /\ ores = [done |-> FALSE, fault |-> FALSE, out |-> << >>]

\* OrderBy(q, key) or OrderByDescending(q, key)
ApplyOrderBy(o) ==
    /\ ~ores.done
    /\ Len(ohist) < MaxOps
    /\ oq' = OrderBy(oq, o)
    /\ ohist' = Append(ohist, [op |-> "OrderBy", o |-> o])
    /\ UNCHANGED << nonSort, rev, data, tie, ores >>

\* ThenBy(q, key) or ThenByDescending(q, key)
ApplyThenBy(o) ==
    /\ ~ores.done
    /\ Len(ohist) < MaxOps
    /\ oq' = ThenBy(oq, o)
    /\ ohist' = Append(ohist, [op |-> "ThenBy", o |-> o])
    /\ UNCHANGED << nonSort, rev, data, tie, ores >>

\* the query is iterated to its end
IterateOrdered ==
    /\ ~ores.done
    /\ ores' = [done |-> TRUE, fault |-> oq.fault, out |-> oq.iterate]
    /\ UNCHANGED << nonSort, rev, data, tie, oq, ohist >>

NextSort ==
    \/ \E o \in Orderings : ApplyOrderBy(o)
    \/ \E o \in Orderings : ApplyThenBy(o)
    \/ IterateOrdered

SpecSort == InitSort /\ [][NextSort]_vars

(* Properties of the ordering operators *)

\* a and b hold the same elements, each as often
IsPerm(a, b) ==
    /\ Len(a) = Len(b)
    /\ \A v \in Vals : Cardinality({ i \in 1 .. Len(a) : a[i] = v })
                        = Cardinality({ i \in 1 .. Len(b) : b[i] = v })

\* x may stand directly before y: k1 in its direction, ties on k1 by k2 ascending
InOrder(o1, k2, x, y) ==
    \/ IF o1.desc THEN Key(o1.key, x) > Key(o1.key, y) ELSE Key(o1.key, x) < Key(o1.key, y)
    \/ Key(o1.key, x) = Key(o1.key, y) /\ Key(k2, x) <= Key(k2, y)

\* C15: ThenBy(OrderBy(q, k1), k2) yields a permutation of q's elements sorted
\* by k1 ascending with ties on k1 ordered by k2 ascending; OrderByDescending
\* reverses only the k1 direction
C15_ThenByOrder ==
    (/\ ores.done
     /\ Len(ohist) = 2
     /\ ohist[1].op = "OrderBy"
     /\ ohist[2].op = "ThenBy" /\ ~ohist[2].o.desc)
        => /\ ~ores.fault
           /\ IsPerm(ores.out, data)
           /\ \A i \in 1 .. (Len(ores.out) - 1) :
                  InOrder(ohist[1].o, ohist[2].o.key, ores.out[i], ores.out[i + 1])

\* a descending primary key with a tie that the secondary key had to break
C15_Witness ==
    /\ ores.done
    /\ Len(ohist) = 2
    /\ ohist[1].op = "OrderBy" /\ ohist[1].o = Desc("parity")
    /\ ohist[2].op = "ThenBy" /\ ohist[2].o = Asc("half")
    /\ data = << 2, 1, 0 >>
    /\ ores.out = << 1, 0, 2 >>

\* the stable arrangement of s under the chain c: by c, ties by position in s
StableOrder(s, c) ==
    LET before(i) == { j \in 1 .. Len(s) :
                         \/ Less(c, s[j], s[i])
                         \/ ~Less(c, s[i], s[j]) /\ j < i }
    IN  [r \in 1 .. Len(s) |->
            s[CHOOSE i \in 1 .. Len(s) : Cardinality(before(i)) = r - 1]]

\* one OrderBy / OrderByDescending followed by ThenBy / ThenByDescending calls
OneChain ==
    /\ Len(ohist) >= 1
    /\ ohist[1].op = "OrderBy"
    /\ \A k \in 2 .. Len(ohist) : ohist[k].op = "ThenBy"

\* C16: the ordered sequence is produced by a stable sort: elements that
\* compare equal under the whole comparator chain keep their source order
C16_StableSort ==
    (ores.done /\ OneChain) => ores.out = StableOrder(data, oq.compare)

\* C17: ThenBy / ThenByDescending on a query without prior ordering is a
\* silent no-op: same elements, same order, and iterating never faults
C17_ThenByWithoutOrder ==
    (/\ ores.done
     /\ Len(ohist) >= 1
     /\ \A k \in 1 .. Len(ohist) : ohist[k].op = "ThenBy")
        => ~ores.fault /\ ores.out = data

----------------------------------------------------------------------------
(* Distinct, Union, Intersect, Except and GroupBy: the iterator's steps    *)
(*                                                                         *)
(* sq.fast says that both queries are slice-backed, so that the operator   *)
(* ranges over fastSlice instead of iterate; the loops are the same.       *)
(* scan holds the iterator's variables: the loop positions i1 and i2, the  *)
(* maps seen and emitted, and groups, the map of GroupBy with its keys in  *)
(* order of insertion; left are the entries a range over that map has not  *)
(* visited yet.                                                            *)

BinaryOps == {"union", "intersect", "except"}

SetOps == {"distinct"} \cup BinaryOps

\* selector(item), keySelector(item); the method forms compare the item itself
KeyOf(x) == Key(sq.key, x)

\* linq.go GroupBy over a slice walks the source twice: counts, then fills
TwoPass(q) == rev = "pull" /\ q.op = "groupBy" /\ q.fast

\* StartPhase that scans the first query without reading the second
StartPhaseScan(q) ==
    IF q.op = "groupBy" THEN (IF TwoPass(q) THEN "count" ELSE "group")
    ELSE "scan"

\* the first loop of the iterator: Intersect and Except fill seen from q2
StartPhase(q) ==
    IF q.op \in {"intersect", "except"} THEN "build"
    ELSE IF q.op = "groupBy" THEN (IF TwoPass(q) THEN "count" ELSE "group")
    ELSE "scan"

\* does the element reach the consumer, given the maps
Emits(item) ==
    LET key == KeyOf(item)
    IN  CASE sq.op \in {"distinct", "union"} -> key \notin scan.seen
          [] sq.op = "intersect" /\ rev = "seq" ->
                 key \in scan.seen /\ key \notin scan.emitted
          [] sq.op = "intersect" /\ rev = "pull" -> key \in scan.seen
          [] sq.op = "except" /\ rev = "seq" ->
                 key \notin scan.seen /\ key \notin scan.emitted
          [] OTHER -> key \notin scan.seen

\* the maps after the element was yielded: seen[key] = struct{}{},
\* emitted[key] = struct{}{}, delete(set, item), or nothing (linq.go Except)
Marked(item) ==
    LET key == KeyOf(item)
    IN  CASE sq.op \in {"distinct", "union"} -> [scan EXCEPT !.seen = @ \cup {key}]
          [] sq.op = "intersect" /\ rev = "pull" -> [scan EXCEPT !.seen = @ \ {key}]
          [] sq.op \in {"intersect", "except"} /\ rev = "seq" ->
                 [scan EXCEPT !.emitted = @ \cup {key}]
          [] OTHER -> scan

\* groups[key] = append(groups[key], item), a new key entering last
AddMember(groups, key, item) ==
    IF \E k \in 1 .. Len(groups) : groups[k].key = key
    THEN [k \in 1 .. Len(groups) |->
             IF groups[k].key = key
             THEN [groups[k] EXCEPT !.value = Append(@, item)]
             ELSE groups[k]]
    ELSE Append(groups, [key |-> key, value |-> << item >>])

\* linq.go GroupBy over a slice counts first: the key enters order, its slice is empty
AddKey(groups, key) ==
    IF \E k \in 1 .. Len(groups) : groups[k].key = key
    THEN groups
    ELSE Append(groups, [key |-> key, value |-> << >>])

SetQueries ==
    { [op |-> o, fast |-> f, key |-> k] :
        o \in SetOps, f \in BOOLEAN,
        k \in (IF rev = "pull" THEN {"id"} ELSE {"id", "parity"}) }
    \cup { [op |-> "groupBy", fast |-> f, key |-> "parity"] : f \in BOOLEAN }

InitSets ==
    /\ CallIdle
    /\ TakeIdle
    /\ ConcIdle
    /\ ChainIdle
    /\ IterIdle
    /\ SortIdle
    /\ rev \in {"pull", "seq"}
    /\ tie = "keep"
    /\ sq \in SetQueries
    /\ data \in Slices
    /\ data2 \in Slices
    /\ Len(data) + Len(data2) <= MaxLen
    /\ sq.op \notin BinaryOps => data2 = << >>
    /\ scan = NoScan
    /\ sout = << >>
    /\ pulls = << >>


\* the consumer calls iterate: the iterator's variables are made
SetIterate ==
    /\ scan.phase = "none"
    /\ scan' = [NoScan EXCEPT !.phase = StartPhase(sq)]
    /\ UNCHANGED << nonSet, rev, data, sq, data2, sout, pulls >>

\* for _, item := range s2 / for item := range q2.iterate: seen[key] = struct{}{}
BuildSeen ==
    /\ scan.phase = "build"
    /\ scan.i2 < Len(data2)
    /\ LET item == data2[scan.i2 + 1]
       IN  /\ scan' = [scan EXCEPT !.i2 = @ + 1, !.seen = @ \cup {KeyOf(item)}]
           /\ pulls' = Append(pulls, << 2, scan.i2 + 1 >>)
    /\ UNCHANGED << nonSet, rev, data, sq, data2, sout >>

\* the second query is exhausted: the loop over the first one begins
BuildDone ==
    /\ scan.phase = "build"
    /\ scan.i2 = Len(data2)
    /\ scan' = [scan EXCEPT !.phase = "scan"]
    /\ UNCHANGED << nonSet, rev, data, sq, data2, sout, pulls >>

\* one round of the loop over the first query
ScanFirst ==
    /\ scan.phase = "scan"
    /\ scan.i1 < Len(data)
    /\ LET item == data[scan.i1 + 1]
       IN  /\ pulls' = Append(pulls, << 1, scan.i1 + 1 >>)
           /\ IF Emits(item)
              THEN /\ scan' = [Marked(item) EXCEPT !.i1 = @ + 1]
                   /\ sout' = Append(sout, item)
              ELSE /\ scan' = [scan EXCEPT !.i1 = @ + 1]
                   /\ sout' = sout
    /\ UNCHANGED << nonSet, rev, data, sq, data2 >>

\* the first query is exhausted: Union goes on with the second one
ScanFirstDone ==
    /\ scan.phase = "scan"
    /\ scan.i1 = Len(data)
    /\ scan' = [scan EXCEPT !.phase = IF sq.op = "union" THEN "scan2" ELSE "end"]
    /\ UNCHANGED << nonSet, rev, data, sq, data2, sout, pulls >>

\* Union: one round of the loop over the second query
ScanSecond ==
    /\ scan.phase = "scan2"
    /\ scan.i2 < Len(data2)
    /\ LET item == data2[scan.i2 + 1]
       IN  /\ pulls' = Append(pulls, << 2, scan.i2 + 1 >>)
           /\ IF Emits(item)
              THEN /\ scan' = [Marked(item) EXCEPT !.i2 = @ + 1]
                   /\ sout' = Append(sout, item)
              ELSE /\ scan' = [scan EXCEPT !.i2 = @ + 1]
                   /\ sout' = sout
    /\ UNCHANGED << nonSet, rev, data, sq, data2 >>

ScanSecondDone ==
    /\ scan.phase = "scan2"
    /\ scan.i2 = Len(data2)
    /\ scan' = [scan EXCEPT !.phase = "end"]
    /\ UNCHANGED << nonSet, rev, data, sq, data2, sout, pulls >>

\* linq.go GroupBy over a slice, first pass: counts[key]++, order = append(order, key)
GroupCount ==
    /\ scan.phase = "count"
    /\ scan.i1 < Len(data)
    /\ LET item == data[scan.i1 + 1]
       IN  /\ scan' = [scan EXCEPT !.i1 = @ + 1,
                                   !.groups = AddKey(@, KeyOf(item))]
           /\ pulls' = Append(pulls, << 1, scan.i1 + 1 >>)
    /\ UNCHANGED << nonSet, rev, data, sq, data2, sout >>

\* the second range over source starts from its first element
GroupCountDone ==
    /\ scan.phase = "count"
    /\ scan.i1 = Len(data)
    /\ scan' = [scan EXCEPT !.phase = "group", !.i1 = 0]
    /\ UNCHANGED << nonSet, rev, data, sq, data2, sout, pulls >>

\* groups[key] = append(groups[key], item)
GroupBuild ==
    /\ scan.phase = "group"
    /\ scan.i1 < Len(data)
    /\ LET item == data[scan.i1 + 1]
       IN  /\ scan' = [scan EXCEPT !.i1 = @ + 1,
                                   !.groups = AddMember(@, KeyOf(item), item)]
           /\ pulls' = Append(pulls, << 1, scan.i1 + 1 >>)
    /\ UNCHANGED << nonSet, rev, data, sq, data2, sout >>

\* the source is exhausted: every entry of the map is still to be yielded
GroupBuildDone ==
    /\ scan.phase = "group"
    /\ scan.i1 = Len(data)
    /\ scan' = [scan EXCEPT !.phase = "emit", !.left = 1 .. Len(scan.groups)]
    /\ UNCHANGED << nonSet, rev, data, sq, data2, sout, pulls >>

\* the entries a round of the emitting loop can visit: linq.go follows its
\* order slice; projection.go ranges over the map, whose order Go leaves open
NextEntries ==
    IF rev = "pull"
    THEN {k \in scan.left : \A j \in scan.left : k <= j}
    ELSE scan.left

\* yield(KV{Key: k, Value: v})
GroupEmit ==
    /\ scan.phase = "emit"
    /\ \E k \in NextEntries :
          /\ sout' = Append(sout, scan.groups[k])
          /\ scan' = [scan EXCEPT !.left = @ \ {k}]
    /\ UNCHANGED << nonSet, rev, data, sq, data2, pulls >>

GroupEmitDone ==
    /\ scan.phase = "emit"
    /\ scan.left = {}
    /\ scan' = [scan EXCEPT !.phase = "end"]
    /\ UNCHANGED << nonSet, rev, data, sq, data2, sout, pulls >>

NextSets ==
    \/ SetIterate
    \/ BuildSeen
    \/ BuildDone
    \/ ScanFirst
    \/ ScanFirstDone
    \/ ScanSecond
    \/ ScanSecondDone
    \/ GroupCount
    \/ GroupCountDone
    \/ GroupBuild
    \/ GroupBuildDone
    \/ GroupEmit
    \/ GroupEmitDone

SpecSets == InitSets /\ [][NextSets]_vars


----------------------------------------------------------------------------
(* Properties of the set operators and of GroupBy                          *)

\* the distinct keys of s in the order of their first occurrence
RECURSIVE FirstKeys(_, _, _)
FirstKeys(s, k, found) ==
    IF s = << >> THEN found
    ELSE LET key == Key(k, Head(s))
         IN  FirstKeys(Tail(s), k,
                       IF \E j \in 1 .. Len(found) : found[j] = key
                       THEN found
                       ELSE Append(found, key))

\* the elements of s with that key, in the order of s
MembersOf(s, k, key) == SelectSeq(s, LAMBDA x : Key(k, x) = key)

\* one entry per key in first-occurrence order, members in source order
Grouping(s, k) ==
    LET ks == FirstKeys(s, k, << >>)
    IN  [j \in 1 .. Len(ks) |-> [key |-> ks[j], value |-> MembersOf(s, k, ks[j])]]

\* C18: GroupBy emits exactly one entry per distinct key, in the order in
\* which each key first occurs in the source, and the members of each entry
\* are in source order.
C18_GroupByFirstOccurrence ==
    (sq.op = "groupBy" /\ scan.phase = "end") => sout = Grouping(data, sq.key)

\* the elements of s whose key is the first of its kind in s
RECURSIVE FirstOfKey(_, _, _, _)
FirstOfKey(s, k, found, out) ==
    IF s = << >> THEN out
    ELSE LET key == Key(k, Head(s))
         IN  IF key \in found
             THEN FirstOfKey(Tail(s), k, found, out)
             ELSE FirstOfKey(Tail(s), k, found \cup {key}, Append(out, Head(s)))

KeysOf(s, k) == {Key(k, s[j]) : j \in 1 .. Len(s)}

\* the elements the operator lets through, in the order of the scan
Scanned(q, s1, s2) ==
    CASE q.op = "union" -> s1 \o s2
      [] q.op = "intersect" ->
             SelectSeq(s1, LAMBDA x : Key(q.key, x) \in KeysOf(s2, q.key))
      [] q.op = "except" ->
             SelectSeq(s1, LAMBDA x : Key(q.key, x) \notin KeysOf(s2, q.key))
      [] OTHER -> s1

\* C19: Distinct, Union, Intersect and Except yield one element per distinct
\* key, in the order in which the key first occurs in the scan (the first
\* sequence, then, for Union, the second).
C19_OnePerKeyInOrder ==
    (sq.op \in SetOps /\ scan.phase = "end")
        => sout = FirstOfKey(Scanned(sq, data, data2), sq.key, {}, << >>)

\* C20: iterating Intersect(q1, q2) or Except(q1, q2) pulls every element
\* of q2 before any element of q1, and each element of q1 at most once.
C20_SecondBeforeFirst ==
    sq.op \in {"intersect", "except"} =>
        /\ \A i, j \in 1 .. Len(pulls) :
              (i < j /\ pulls[i][1] = 1) => pulls[j][1] = 1
        /\ (\E i \in 1 .. Len(pulls) : pulls[i][1] = 1) =>
              \A e \in 1 .. Len(data2) :
                  \E j \in 1 .. Len(pulls) : pulls[j] = << 2, e >>
        /\ \A i, j \in 1 .. Len(pulls) :
              (i # j /\ pulls[i][1] = 1) => pulls[i] # pulls[j]

\* an Intersect over two and one elements was iterated to its end and
\* yielded an element
C20_Witness ==
    /\ sq.op = "intersect"
    /\ rev = "seq"
    /\ scan.phase = "end"
    /\ Len(data) = 2
    /\ Len(data2) = 1
    /\ Len(pulls) = 3
    /\ Len(sout) = 1


----------------------------------------------------------------------------
(* The set operators as functions of their sources                         *)
(*                                                                         *)
(* A query is given by the sequence its source yields; the loops are those *)
(* of the iterators above, run to their end.                               *)

\* for item := range q: if _, ok := seen[key]; !ok { seen[key] = struct{}{}; yield(item) }
RECURSIVE DistinctLoop(_, _, _, _)
DistinctLoop(src, k, seen, out) ==
    IF src = << >> THEN [seen |-> seen, out |-> out]
    ELSE LET key == Key(k, Head(src))
         IN  IF key \notin seen
             THEN DistinctLoop(Tail(src), k, seen \cup {key}, Append(out, Head(src)))
             ELSE DistinctLoop(Tail(src), k, seen, out)

DistinctBy(s, k) == DistinctLoop(s, k, {}, << >>).out

\* UnionBy whose second loop starts with a map of its own
UnionByFresh(s1, s2, k) ==
    DistinctLoop(s1, k, {}, << >>).out \o DistinctLoop(s2, k, {}, << >>).out

\* the loop over q1, then the loop over q2, with one seen map
UnionBy(s1, s2, k) ==
    LET first == DistinctLoop(s1, k, {}, << >>)
    IN  DistinctLoop(s2, k, first.seen, first.out).out

\* for item := range q2: seen[selector(item)] = struct{}{}
RECURSIVE SeenLoop(_, _, _)
SeenLoop(src, k, seen) ==
    IF src = << >> THEN seen
    ELSE SeenLoop(Tail(src), k, seen \cup {Key(k, Head(src))})

\* the loop of Intersect over q1: set.go and query.go keep an emitted map,
\* linq.go deletes the yielded item from its set
RECURSIVE IntersectLoop(_, _, _, _, _)
IntersectLoop(src, k, seen, emitted, out) ==
    IF src = << >> THEN out
    ELSE LET key == Key(k, Head(src))
         IN  IF rev = "pull"
             THEN IF key \in seen
                  THEN IntersectLoop(Tail(src), k, seen \ {key}, emitted,
                                     Append(out, Head(src)))
                  ELSE IntersectLoop(Tail(src), k, seen, emitted, out)
             ELSE IF key \in seen /\ key \notin emitted
                  THEN IntersectLoop(Tail(src), k, seen, emitted \cup {key},
                                     Append(out, Head(src)))
                  ELSE IntersectLoop(Tail(src), k, seen, emitted, out)

IntersectBy(s1, s2, k) == IntersectLoop(s1, k, SeenLoop(s2, k, {}), {}, << >>)

\* ExceptLoop that lets every element of q1 through
ExceptLoopAll(src, k, seen, emitted, out) == src

\* the loop of Except over q1: set.go and query.go keep an emitted map,
\* linq.go yields every item that is not in its set
RECURSIVE ExceptLoop(_, _, _, _, _)
ExceptLoop(src, k, seen, emitted, out) ==
    IF src = << >> THEN out
    ELSE LET key == Key(k, Head(src))
         IN  IF rev = "pull"
             THEN IF key \notin seen
                  THEN ExceptLoop(Tail(src), k, seen, emitted, Append(out, Head(src)))
                  ELSE ExceptLoop(Tail(src), k, seen, emitted, out)
             ELSE IF key \notin seen /\ key \notin emitted
                  THEN ExceptLoop(Tail(src), k, seen, emitted \cup {key},
                                  Append(out, Head(src)))
                  ELSE ExceptLoop(Tail(src), k, seen, emitted, out)

ExceptBy(s1, s2, k) == ExceptLoop(s1, k, SeenLoop(s2, k, {}), {}, << >>)

\* the selectors of the calls: the methods of linq.go compare the items
SelKeys == IF rev = "pull" THEN {"id"} ELSE {"id", "parity"}

\* the call is recorded; the one before it is kept
Called(fn, arg, ret) ==
    /\ call' = [fn |-> fn, arg |-> arg, ret |-> ret]
    /\ prev' = call
    /\ UNCHANGED << nonCall, rev, list, probe >>

InitAlgebra ==
    /\ TakeIdle
    /\ ConcIdle
    /\ ChainIdle
    /\ IterIdle
    /\ SortIdle
    /\ SetIdle
    /\ rev \in {"pull", "seq"}
    /\ data = << >>
    /\ tie = "keep"
    /\ list \in Slices
    /\ probe \in Slices
    /\ Len(list) + Len(probe) <= MaxLen
    /\ call = NoCall
    /\ prev = NoCall

\* Distinct(S1).ToSlice()
CallDistinct == \E k \in SelKeys : Called("Distinct", k, DistinctBy(list, k))

\* Distinct(Distinct(S1)).ToSlice()
CallDistinctDistinct ==
    \E k \in SelKeys : Called("DistinctDistinct", k, DistinctBy(DistinctBy(list, k), k))

\* Union(S1, S1).ToSlice()
CallUnionSelf == \E k \in SelKeys : Called("UnionSelf", k, UnionBy(list, list, k))

\* Union(S1, S2).ToSlice()
CallUnion == \E k \in SelKeys : Called("Union", k, UnionBy(list, probe, k))

\* Except(S1, S2).ToSlice()
CallExcept == \E k \in SelKeys : Called("Except", k, ExceptBy(list, probe, k))

\* Intersect(S1, S2).ToSlice()
CallIntersect == \E k \in SelKeys : Called("Intersect", k, IntersectBy(list, probe, k))

\* Intersect(S1, Except(S1, S2)).ToSlice()
CallIntersectExcept ==
    \E k \in SelKeys :
        Called("IntersectExcept", k, IntersectBy(list, ExceptBy(list, probe, k), k))

\* Intersect(S2, Except(S1, S2)).ToSlice()
CallIntersectSecondExcept ==
    \E k \in SelKeys :
        Called("IntersectSecondExcept", k,
               IntersectBy(probe, ExceptBy(list, probe, k), k))

NextAlgebra ==
    \/ CallDistinct
    \/ CallDistinctDistinct
    \/ CallUnionSelf
    \/ CallUnion
    \/ CallExcept
    \/ CallIntersect
    \/ CallIntersectExcept
    \/ CallIntersectSecondExcept

SpecAlgebra == InitAlgebra /\ [][NextAlgebra]_vars

\* C21: for every finite sequence S, Union(S, S) yields exactly the same
\* element sequence as Distinct(S).
C21_UnionSelfIsDistinct ==
    (call.fn = "UnionSelf" /\ prev.fn = "Distinct" /\ call.arg = prev.arg)
        => call.ret = prev.ret

\* Union(S, S) and Distinct(S) were both computed for a sequence that
\* repeats an element
C21_Witness ==
    /\ call.fn = "UnionSelf"
    /\ prev.fn = "Distinct"
    /\ call.arg = prev.arg
    /\ Len(list) = 3
    /\ Len(call.ret) = 2

\* C22 as stated: for all finite sequences S1 and S2,
\* Intersect(S1, Except(S1, S2)) is empty.
C22_IntersectExceptEmpty ==
    call.fn = "IntersectExcept" => call.ret = << >>

\* C22, amended: Intersect(S2, Except(S1, S2)) is empty, and
\* Intersect(S1, Except(S1, S2)) yields one element per key of Except(S1, S2),
\* in the order of Except(S1, S2).
C22_IntersectExceptLaw ==
    /\ call.fn = "IntersectSecondExcept" => call.ret = << >>
    /\ (call.fn = "IntersectExcept" /\ prev.fn = "Except" /\ call.arg = prev.arg)
           => call.ret = DistinctBy(prev.ret, call.arg)

\* both compositions were computed for sources that share an element and
\* differ in another
C22_Witness ==
    /\ call.fn = "IntersectSecondExcept"
    /\ prev.fn = "Except"
    /\ Len(prev.ret) >= 1
    /\ Len(list) = 2
    /\ Len(probe) = 1
    /\ \E j \in 1 .. Len(list) : list[j] = probe[1]


----------------------------------------------------------------------------
(* Every, Some and None over two slices                                    *)

\* the sizes at which a hash set is built instead of scanning list per element
EveryBigSubset == 100
EveryBigList == 2000
EveryMidSubset == 50
SomeBigSubset == 80
SomeBigList == 5000
SomeMidSubset == 30
NoneBigSubset == 100
NoneBigList == 3000
NoneMidSubset == 50

\* slices.Contains(list, element)
Contains(lst, element) == \E j \in 1 .. Len(lst) : lst[j] = element

\* seen := make(map[T]struct{}, len(list)); for _, elem := range list { seen[elem] = struct{}{} }
SeenOf(lst) == {lst[j] : j \in 1 .. Len(lst)}

\* EverySmallData that answers as Some does
EverySmallDataSome(lst, subset) == \E j \in 1 .. Len(subset) : Contains(lst, subset[j])

RECURSIVE EverySmallData(_, _)
EverySmallData(lst, subset) ==
    IF subset = << >> THEN TRUE
    ELSE IF ~Contains(lst, Head(subset)) THEN FALSE
    ELSE EverySmallData(lst, Tail(subset))

RECURSIVE EveryBigLoop(_, _)
EveryBigLoop(seen, subset) ==
    IF subset = << >> THEN TRUE
    ELSE IF Head(subset) \notin seen THEN FALSE
    ELSE EveryBigLoop(seen, Tail(subset))

\* EveryBigData without its test of an empty subset
EveryBigDataListFirst(lst, subset) ==
    IF Len(lst) = 0 THEN FALSE
    ELSE EveryBigLoop(SeenOf(lst), subset)

EveryBigData(lst, subset) ==
    IF Len(subset) = 0 THEN TRUE
    ELSE IF Len(lst) = 0 THEN FALSE
    ELSE EveryBigLoop(SeenOf(lst), subset)

Every(lst, subset) ==
    LET n == Len(lst)
        m == Len(subset)
    IN  IF m > EveryBigSubset \/ (n > EveryBigList /\ m > EveryMidSubset)
        THEN EveryBigData(lst, subset)
        ELSE EverySmallData(lst, subset)

RECURSIVE SomeSmallData(_, _)
SomeSmallData(lst, subset) ==
    IF subset = << >> THEN FALSE
    ELSE IF Contains(lst, Head(subset)) THEN TRUE
    ELSE SomeSmallData(lst, Tail(subset))

RECURSIVE SomeBigLoop(_, _)
SomeBigLoop(seen, subset) ==
    IF subset = << >> THEN FALSE
    ELSE IF Head(subset) \in seen THEN TRUE
    ELSE SomeBigLoop(seen, Tail(subset))

SomeBigData(lst, subset) ==
    IF Len(subset) = 0 \/ Len(lst) = 0 THEN FALSE
    ELSE SomeBigLoop(SeenOf(lst), subset)

\* linq.go chooses by size; utils.go always scans
Some(lst, subset) ==
    LET n == Len(lst)
        m == Len(subset)
    IN  IF rev = "seq" THEN SomeSmallData(lst, subset)
        ELSE IF n = 0 \/ m = 0 THEN FALSE
        ELSE IF m > SomeBigSubset \/ (n > SomeBigList /\ m > SomeMidSubset)
        THEN SomeBigData(lst, subset)
        ELSE SomeSmallData(lst, subset)

RECURSIVE NoneSmallData(_, _)
NoneSmallData(lst, subset) ==
    IF subset = << >> THEN TRUE
    ELSE IF Contains(lst, Head(subset)) THEN FALSE
    ELSE NoneSmallData(lst, Tail(subset))

RECURSIVE NoneBigLoop(_, _)
NoneBigLoop(seen, subset) ==
    IF subset = << >> THEN TRUE
    ELSE IF Head(subset) \in seen THEN FALSE
    ELSE NoneBigLoop(seen, Tail(subset))

NoneBigData(lst, subset) ==
    IF Len(subset) = 0 \/ Len(lst) = 0 THEN TRUE
    ELSE NoneBigLoop(SeenOf(lst), subset)

None(lst, subset) ==
    LET n == Len(lst)
        m == Len(subset)
    IN  IF rev = "seq" THEN NoneSmallData(lst, subset)
        ELSE IF n = 0 \/ m = 0 THEN TRUE
        ELSE IF m > NoneBigSubset \/ (n > NoneBigList /\ m > NoneMidSubset)
        THEN NoneBigData(lst, subset)
        ELSE NoneSmallData(lst, subset)

InitMembership == InitAlgebra

CallEvery ==
    \E r \in {Every(list, probe)} : Called("Every", "", r)

CallEverySmallData ==
    \E r \in {EverySmallData(list, probe)} : Called("EverySmallData", "", r)

CallEveryBigData ==
    \E r \in {EveryBigData(list, probe)} : Called("EveryBigData", "", r)

CallSome ==
    \E r \in {Some(list, probe)} : Called("Some", "", r)

CallSomeSmallData ==
    \E r \in {SomeSmallData(list, probe)} : Called("SomeSmallData", "", r)

CallSomeBigData ==
    \E r \in {SomeBigData(list, probe)} : Called("SomeBigData", "", r)

CallNone ==
    \E r \in {None(list, probe)} : Called("None", "", r)

CallNoneSmallData ==
    \E r \in {NoneSmallData(list, probe)} : Called("NoneSmallData", "", r)

CallNoneBigData ==
    \E r \in {NoneBigData(list, probe)} : Called("NoneBigData", "", r)

NextMembership ==
    \/ CallEvery
    \/ CallEverySmallData
    \/ CallEveryBigData
    \/ CallSome
    \/ CallSomeSmallData
    \/ CallSomeBigData
    \/ CallNone
    \/ CallNoneSmallData
    \/ CallNoneBigData

SpecMembership == InitMembership /\ [][NextMembership]_vars

\* the functions that answer the same question
Family(fn) ==
    CASE fn \in {"Every", "EverySmallData", "EveryBigData"} -> "Every"
      [] fn \in {"Some", "SomeSmallData", "SomeBigData"} -> "Some"
      [] fn \in {"None", "NoneSmallData", "NoneBigData"} -> "None"
      [] OTHER -> "none"

\* C23: for every list and probe set, empty ones included, the nested-scan
\* and the hash-set strategy return the same boolean, so that the result of
\* Every, Some and None does not depend on the branch taken.
C23_SmallEqualsBig ==
    (Family(call.fn) # "none" /\ Family(call.fn) = Family(prev.fn))
        => call.ret = prev.ret

\* the two strategies of Every were run on a list that lacks an element of
\* the probe set
C23_Witness ==
    /\ call.fn = "EveryBigData"
    /\ prev.fn = "EverySmallData"
    /\ Len(list) = 2
    /\ Len(probe) = 1
    /\ call.ret = FALSE

----------------------------------------------------------------------------
(* TakeWhile, FirstDefault and LastDefault                                 *)

\* var zero T, for the int elements of the model
Zero == 0

\* TakeWhileLoop that passes over a failing element and goes on
RECURSIVE TakeWhileLoopOn(_, _, _)
TakeWhileLoopOn(up, P, out) ==
    IF up = << >> THEN out
    ELSE TakeWhileLoopOn(Tail(up), P,
                         IF PredHolds(P, Head(up)) THEN Append(out, Head(up)) ELSE out)

\* for item := range q.iterate { if !predicate(item) { break }; yield(item) };
\* linq.go: taking = false, and every later call returns !ok
RECURSIVE TakeWhileLoop(_, _, _)
TakeWhileLoop(up, P, out) ==
    IF up = << >> THEN out
    ELSE IF ~PredHolds(P, Head(up)) THEN out
    ELSE TakeWhileLoop(Tail(up), P, Append(out, Head(up)))

\* for _, item := range source { if preFilter != nil && !preFilter(item) { continue };
\* if !predicate(item) { break }; yield(item) }
RECURSIVE TakeWhileFastLoop(_, _, _, _)
TakeWhileFastLoop(src, pre, P, out) ==
    IF src = << >> THEN out
    ELSE IF pre # << >> /\ ~CombinedPred(pre, Head(src))
         THEN TakeWhileFastLoop(Tail(src), pre, P, out)
         ELSE IF ~PredHolds(P, Head(src)) THEN out
         ELSE TakeWhileFastLoop(Tail(src), pre, P, Append(out, Head(src)))

TakeWhile(q, predicate) ==
    IF q.fast
    THEN Generic(TakeWhileFastLoop(q.fastSlice, q.fastWhere, predicate, << >>))
    ELSE Generic(TakeWhileLoop(q.iterate, predicate, << >>))

\* linq.go First: the slice paths, or item, _ := q.iterate()();
\* iter.Seq First: for item := range q.iterate { return item }
First(q) ==
    IF rev = "pull" /\ q.fast
    THEN IF q.fastWhere = << >>
         THEN (IF Len(q.fastSlice) > 0 THEN q.fastSlice[1] ELSE Zero)
         ELSE LET kept == WhereLoop(q.fastSlice, q.fastWhere, << >>)
              IN  IF kept = << >> THEN Zero ELSE kept[1]
    ELSE IF q.iterate = << >> THEN Zero ELSE q.iterate[1]

\* linq.go Last: the slice paths, or the loop that keeps the last item pulled
Last(q) ==
    IF rev = "pull" /\ q.fast
    THEN IF q.fastWhere = << >>
         THEN (IF Len(q.fastSlice) > 0 THEN q.fastSlice[Len(q.fastSlice)] ELSE Zero)
         ELSE LET kept == WhereLoop(q.fastSlice, q.fastWhere, << >>)
              IN  IF kept = << >> THEN Zero ELSE kept[Len(kept)]
    ELSE IF q.iterate = << >> THEN Zero ELSE q.iterate[Len(q.iterate)]

\* linq.go: v = q.First(); no default: Empty[T](); IsEmpty(v): d[0]; else v.
\* iter.Seq: the first item pulled, else the default, else zero
FirstDefault(q, d) ==
    IF rev = "pull"
    THEN LET v == First(q)
         IN  IF Len(d) = 0 THEN Zero
             ELSE IF v = Zero THEN d[1]
             ELSE v
    ELSE IF q.iterate # << >> THEN q.iterate[1]
         ELSE IF Len(d) > 0 THEN d[1]
         ELSE Zero

\* linq.go: v = q.Last(), then as FirstDefault; iter.Seq: found decides
LastDefault(q, d) ==
    IF rev = "pull"
    THEN LET v == Last(q)
         IN  IF Len(d) = 0 THEN Zero
             ELSE IF v = Zero THEN d[1]
             ELSE v
    ELSE IF q.iterate # << >> THEN q.iterate[Len(q.iterate)]
         ELSE IF Len(d) > 0 THEN d[1]
         ELSE Zero

\* the variadic default: absent or one value
Defaults == {<< >>} \cup {<< v >> : v \in Vals}

\* the receivers: a slice or a closed channel carrying list, filtered or not
Receivers ==
    { [src |-> s, pre |-> pre] : s \in {"slice", "channel"},
                                 pre \in {<< >>, << {"even"} >>} }

Receiver(a) ==
    LET base == IF a.src = "slice" THEN From(list) ELSE FromChannel(list)
    IN  IF a.pre = << >> THEN base ELSE Where(base, a.pre[1])

InitElement ==
    /\ TakeIdle
    /\ ConcIdle
    /\ ChainIdle
    /\ IterIdle
    /\ SortIdle
    /\ SetIdle
    /\ rev \in {"pull", "seq"}
    /\ data = << >>
    /\ tie = "keep"
    /\ list \in Slices
    /\ probe = << >>
    /\ call = NoCall
    /\ prev = NoCall

\* q.TakeWhile(predicate).ToSlice()
CallTakeWhile ==
    \E a \in Receivers, P \in Preds :
        Called("TakeWhile", [src |-> a.src, pre |-> a.pre, p |-> P, d |-> << >>],
               ToSlice(TakeWhile(Receiver(a), P)))

\* q.FirstDefault(d...)
CallFirstDefault ==
    \E a \in Receivers, d \in Defaults :
        Called("FirstDefault", [src |-> a.src, pre |-> a.pre, p |-> {}, d |-> d],
               FirstDefault(Receiver(a), d))

\* q.LastDefault(d...)
CallLastDefault ==
    \E a \in Receivers, d \in Defaults :
        Called("LastDefault", [src |-> a.src, pre |-> a.pre, p |-> {}, d |-> d],
               LastDefault(Receiver(a), d))

NextTakeWhile == CallTakeWhile

SpecTakeWhile == InitElement /\ [][NextTakeWhile]_vars

NextDefault ==
    \/ CallFirstDefault
    \/ CallLastDefault

SpecDefault == InitElement /\ [][NextDefault]_vars

\* the elements the receiver of the call yields
Yielded(a) == ToSlice(Receiver(a))

\* the default that applies: the one supplied, or the zero value
DefaultOf(d) == IF Len(d) > 0 THEN d[1] ELSE Zero

\* C26: FirstDefault and LastDefault return the first / last element whenever
\* the sequence is non-empty, also when that element is the zero value and
\* also when no default is given, and the supplied default (or the zero
\* value) only when the sequence is empty.
C26_FirstLastDefault ==
    /\ call.fn = "FirstDefault" =>
           call.ret = IF Yielded(call.arg) # << >>
                      THEN Yielded(call.arg)[1]
                      ELSE DefaultOf(call.arg.d)
    /\ call.fn = "LastDefault" =>
           call.ret = IF Yielded(call.arg) # << >>
                      THEN Yielded(call.arg)[Len(Yielded(call.arg))]
                      ELSE DefaultOf(call.arg.d)

\* the longest prefix of s whose elements all satisfy P
LongestPrefix(s, P) ==
    LET good == {k \in 0 .. Len(s) : \A j \in 1 .. k : PredHolds(P, s[j])}
    IN  SubSeq(s, 1, CHOOSE k \in good : \A m \in good : m <= k)

\* C27: TakeWhile(p) yields exactly the longest prefix of its input whose
\* elements all satisfy p, nothing after the first element that fails p even
\* if later elements satisfy p, and the same for slice-backed and
\* channel-backed inputs.
C27_TakeWhilePrefix ==
    /\ call.fn = "TakeWhile" =>
           call.ret = LongestPrefix(Yielded(call.arg), call.arg.p)
    /\ (call.fn = "TakeWhile" /\ prev.fn = "TakeWhile"
            /\ call.arg.p = prev.arg.p /\ call.arg.pre = prev.arg.pre)
           => call.ret = prev.ret

\* TakeWhile stopped at a failing element that is followed by a passing one,
\* over a channel after the same call over a slice
C27_Witness ==
    /\ call.fn = "TakeWhile"
    /\ prev.fn = "TakeWhile"
    /\ call.arg.src = "channel"
    /\ prev.arg.src = "slice"
    /\ call.arg.p = {"even"}
    /\ prev.arg.p = {"even"}
    /\ call.arg.pre = << >>
    /\ prev.arg.pre = << >>
    /\ list = << 2, 1, 2 >>
    /\ call.ret = << 2 >>


----------------------------------------------------------------------------
(* Take(count) over FromChannel, collected while the channel is being fed  *)

\* the sender is ready to hand over the next element of data
SourceOffer ==
    /\ ~srcCh.closed
    /\ srcCh.offered < Len(data)
    /\ srcCh' = [srcCh EXCEPT !.offered = @ + 1]
    /\ UNCHANGED << nonTake, rev, data, taker >>

\* close(source) after the last element; a sender may also never close
SourceClose ==
    /\ ~srcCh.closed
    /\ srcCh.offered = Len(data)
    /\ srcCh' = [srcCh EXCEPT !.closed = TRUE]
    /\ UNCHANGED << nonTake, rev, data, taker >>

\* ToSlice calls iterate: n := count. linq.go then calls the closure, the
\* iter.Seq revision enters  for item := range q.iterate, i.e.
\* for item := range source
TakeStart ==
    /\ taker.pc = "idle"
    /\ \E c \in Counts :
          taker' = [taker EXCEPT !.count = c, !.n = c,
                                 !.pc = IF rev = "pull" THEN "top" ELSE "recv"]
    /\ UNCHANGED << nonTake, rev, data, srcCh >>

\* linq.go: if n <= 0 { return }; n--; return next()
TakeTop ==
    /\ taker.pc = "top"
    /\ taker' = IF taker.n <= 0
                THEN [taker EXCEPT !.pc = "done"]
                ELSE [taker EXCEPT !.n = @ - 1, !.pc = "recv"]
    /\ UNCHANGED << nonTake, rev, data, srcCh >>

\* item, ok = <-source. linq.go hands the item to ToSlice; the iter.Seq
\* revision runs the loop body of Take on it: if n <= 0 { break }; n--; yield(item)
TakeRecv ==
    /\ taker.pc = "recv"
    /\ \/ /\ taker.pulled < srcCh.offered
          /\ LET item == data[taker.pulled + 1]
                 got == [taker EXCEPT !.pulled = @ + 1]
             IN  taker' = IF rev = "pull"
                          THEN [got EXCEPT !.out = Append(@, item), !.pc = "top"]
                          ELSE IF taker.n <= 0
                               THEN [got EXCEPT !.pc = "done"]
                               ELSE [got EXCEPT !.n = @ - 1, !.out = Append(@, item)]
       \/ /\ taker.pulled = srcCh.offered
          /\ srcCh.closed
          /\ taker' = [taker EXCEPT !.pc = "done"]
    /\ UNCHANGED << nonTake, rev, data, srcCh >>

InitTake ==
    /\ ConcIdle
    /\ ChainIdle
    /\ IterIdle
    /\ SortIdle
    /\ SetIdle
    /\ CallIdle
    /\ rev \in {"pull", "seq"}
    /\ data \in Slices
    /\ tie = "keep"
    /\ TakeIdle

NextTake ==
    \/ SourceOffer
    \/ SourceClose
    \/ TakeStart
    \/ TakeTop
    \/ TakeRecv

SpecTake == InitTake /\ [][NextTake]_vars

\* C30: Take(n) on a channel-backed input pulls at most max(n, 0) elements
\* from its upstream: it never consumes an (n+1)-th element, and once it has
\* yielded n elements it does not wait for another one.
C30_TakePullsAtMostN ==
    /\ taker.pulled <= Max(taker.count, 0)
    /\ ~(taker.pc = "recv" /\ Len(taker.out) >= Max(taker.count, 0))


----------------------------------------------------------------------------
(* SelectAsyncCtx, projection.go: what becomes of a selector's panic *)

\* some selector invocation panicked and its deferred recover() has run
SelectorPanicked ==
    \E i \in faulty : /\ calls[i] > 0
                      /\ \A x \in Gid : ~(g[x].st = "run" /\ g[x].it = i)

\* C25: in the iter.Seq SelectAsyncCtx, when a selector invocation has panicked
\* the result sequence never ends normally (ctx not cancelled, outCh seen
\* closed): the panic is re-raised to the consumer instead.
C25_PanicNeverLost ==
    (impl = "SAC_iter" /\ consumer = "ended" /\ ~ctxDone) => ~SelectorPanicked


----------------------------------------------------------------------------
(* ForEachParallel / ForEachParallelCtx, linq.go channel path, over sources *)
(* long enough to fill ch after every worker has gone                      *)

\* workers >= 2: with workers <= 1 linq.go runs the action on the calling thread
InitDispatch ==
    /\ InitUpTo(DispatchLen)
    /\ passing = Source
    /\ workers \in 2 .. MaxWorkers
    /\ impl = "FE_chan"
    /\ hasCtx \in BOOLEAN
    /\ consumer = "none"

DispatchWorkerStep(x) ==
    \/ FEChanRecv(x)
    \/ ActionReturn(x)
    \/ ActionPanic(x)

NextDispatch ==
    \/ Cancel
    \/ FESpawnChan
    \/ FEChanSend
    \/ FEJoin
    \/ \E x \in Gid : DispatchWorkerStep(x)

SpecDispatch == InitDispatch /\ [][NextDispatch]_vars

\* the calling thread is parked in  ch <- item : ch is full, no worker is
\* left to receive from it, and no cancelled ctx offers the other case
DispatcherStuck ==
    /\ impl = "FE_chan"
    /\ pc = "send"
    /\ next < length
    /\ Len(ch) = ChCap
    /\ AllJoined
    /\ ~(hasCtx /\ ctxDone)

\* C28: ForEachParallel / ForEachParallelCtx over an iterator-backed source
\* terminates also when N or more actions panic: the dispatcher is never left
\* blocked handing an element to workers that have all exited.
C28_DispatcherNeverStuck == ~DispatcherStuck


----------------------------------------------------------------------------
(* ForEachParallelCtx, part_004: errCh is closed by a goroutine of its own *)

\* sem, errCh and workerCtx are made; go func() { wg.Wait(); close(errCh) }()
\* is started; the loop over the source begins
CloserStart ==
    /\ impl = "FE_closer"
    /\ pc = "start"
    /\ next' = NextPass(0)
    /\ pc' = "acquire"
    /\ UNCHANGED << qvars, cfg, ctxDone, cancelCalled, g, sem, outCh, ch, errCh, closed,
                    onceDone, consumer, recv, calls, finished, callerOrder,
                    undispatched, sentOnClosed >>

\* the closing goroutine: wg.Wait() returns whenever the counter is zero, also
\* before the first wg.Add(1); then close(errCh)
CloserClose ==
    /\ impl = "FE_closer"
    /\ pc # "start"
    /\ closed.errCh = 0
    /\ AllJoined
    /\ closed' = [closed EXCEPT !.errCh = @ + 1]
    /\ UNCHANGED << qvars, cfg, ctxDone, cancelCalled, pc, next, g, sem, outCh, ch, errCh,
                    onceDone, consumer, recv, calls, finished, callerOrder,
                    undispatched, sentOnClosed >>

\* select { case <-workerCtx.Done(): break; case sem <- token{}: ;
\*          case panicErr := <-errCh: if panicErr != nil { panic(panicErr) } }
\* wg.Add(1); go func(val T) {...}(item)
\* break leaves the select only, and a closed errCh delivers nil: on both
\* branches the worker is started without a token in sem
CloserDispatch ==
    /\ impl = "FE_closer"
    /\ pc = "acquire"
    /\ \/ /\ next >= length
          /\ pc' = "wait"
          /\ UNCHANGED << next, g, sem, errCh, cancelCalled >>
       \/ /\ next < length
          /\ sem < SemCap
          /\ sem' = sem + 1
          /\ g' = [g EXCEPT ![next] = [st |-> "chk", it |-> next]]
          /\ next' = NextPass(next + 1)
          /\ UNCHANGED << pc, errCh, cancelCalled >>
       \/ /\ next < length
          /\ WorkerCtxDone \/ (errCh = 0 /\ closed.errCh > 0)
          /\ g' = [g EXCEPT ![next] = [st |-> "chk", it |-> next]]
          /\ next' = NextPass(next + 1)
          /\ UNCHANGED << pc, sem, errCh, cancelCalled >>
       \/ /\ next < length
          /\ errCh > 0
          /\ errCh' = errCh - 1
          /\ pc' = "panicked"
          /\ cancelCalled' = TRUE
          /\ UNCHANGED << next, g, sem >>
    /\ UNCHANGED << qvars, cfg, ctxDone, outCh, ch, closed, onceDone, consumer, recv,
                    calls, finished, callerOrder, undispatched, sentOnClosed >>

\* worker: select { case <-workerCtx.Done(): return; default: action(val) }
CloserWorkerCheck(x) ==
    /\ impl = "FE_closer"
    /\ g[x].st = "chk"
    /\ IF WorkerCtxDone
       THEN /\ g' = [g EXCEPT ![x].st = "rel"]
            /\ UNCHANGED calls
       ELSE /\ g' = [g EXCEPT ![x].st = "run"]
            /\ calls' = [calls EXCEPT ![g[x].it] = @ + 1]
    /\ UNCHANGED << qvars, cfg, ctxDone, cancelCalled, pc, next, sem, outCh, ch, errCh,
                    closed, onceDone, consumer, recv, finished, callerOrder,
                    undispatched, sentOnClosed >>

\* action(val) returns
CloserActionReturn(x) ==
    /\ impl = "FE_closer"
    /\ g[x].st = "run"
    /\ g[x].it \notin faulty
    /\ finished' = finished \cup {g[x].it}
    /\ g' = [g EXCEPT ![x].st = "rel"]
    /\ UNCHANGED << qvars, cfg, ctxDone, cancelCalled, pc, next, sem, outCh, ch, errCh,
                    closed, onceDone, consumer, recv, calls, callerOrder,
                    undispatched, sentOnClosed >>

\* action(val) panics: recover(); select { case errCh <- r: cancel(); default: }
\* a send case on a closed channel is ready, and executing it panics
CloserActionPanic(x) ==
    /\ impl = "FE_closer"
    /\ g[x].st = "run"
    /\ g[x].it \in faulty
    /\ IF closed.errCh > 0
       THEN sentOnClosed' = TRUE /\ UNCHANGED << errCh, cancelCalled >>
       ELSE IF errCh < ErrCap
            THEN errCh' = errCh + 1 /\ cancelCalled' = TRUE /\ UNCHANGED sentOnClosed
            ELSE UNCHANGED << errCh, cancelCalled, sentOnClosed >>
    /\ g' = [g EXCEPT ![x].st = "rel"]
    /\ UNCHANGED << qvars, cfg, ctxDone, pc, next, sem, outCh, ch, closed, onceDone,
                    consumer, recv, calls, finished, callerOrder, undispatched >>

\* the deferred  <-sem  and  wg.Done()
CloserRelease(x) ==
    /\ impl = "FE_closer"
    /\ g[x].st = "rel"
    /\ sem > 0
    /\ sem' = sem - 1
    /\ g' = Release(x)
    /\ UNCHANGED << qvars, cfg, ctxDone, cancelCalled, pc, next, outCh, ch, errCh, closed,
                    onceDone, consumer, recv, calls, finished, callerOrder,
                    undispatched, sentOnClosed >>

\* wg.Wait(); for panicErr := range errCh { panic(panicErr) }: the range ends
\* when errCh is closed and drained; the deferred cancel() runs on the way out
CloserJoin ==
    /\ impl = "FE_closer"
    /\ pc = "wait"
    /\ AllJoined
    /\ errCh > 0 \/ closed.errCh > 0
    /\ IF errCh > 0
       THEN pc' = "panicked" /\ errCh' = errCh - 1
       ELSE pc' = "returned" /\ UNCHANGED errCh
    /\ cancelCalled' = TRUE
    /\ UNCHANGED << qvars, cfg, ctxDone, next, g, sem, outCh, ch, closed, onceDone,
                    consumer, recv, calls, finished, callerOrder, undispatched,
                    sentOnClosed >>

InitCloser ==
    /\ InitCommon
    /\ workers \in 1 .. MaxWorkers
    /\ impl = "FE_closer"
    /\ hasCtx \in BOOLEAN
    /\ consumer = "none"

CloserWorkerStep(x) ==
    \/ CloserWorkerCheck(x)
    \/ CloserActionReturn(x)
    \/ CloserActionPanic(x)
    \/ CloserRelease(x)

NextCloser ==
    \/ CloserStart
    \/ CloserClose
    \/ CloserDispatch
    \/ CloserJoin
    \/ \E x \in Gid : CloserWorkerStep(x)

\* the operators that close a channel their goroutines send on: SelectAsync /
\* SelectAsyncCtx (outCh) and part_004's ForEachParallelCtx (errCh)
InitSends == InitSelect \/ InitCloser

NextSends == NextSelect \/ NextCloser

SpecSends == InitSends /\ [][NextSends]_vars

\* C29: no goroutine of a concurrent operator sends on a channel that is
\* already closed (outCh of SelectAsyncCtx, errCh of ForEachParallelCtx).
C29_NoSendOnClosed == ~sentOnClosed

====
